---------------------------- MODULE Spec2Model ----------------------------
(***************************************************************************)
(* Umenu: the taste-query parser of taste-parser.js (parseTasteQuery,      *)
(* parseWithGemma, parseWithKeywords) and the places of the search         *)
(* pipeline that read its result: the preference filter of                 *)
(* mealme-service.js, the meal scorer and the restaurant match score.      *)
(* Spec and FairSpec are one call of parseTasteQuery; MenuSpec is one      *)
(* restaurant's task in the search-by-taste handler; SearchSpec is the     *)
(* handler over all the restaurants found, their tasks running under       *)
(* Promise.all; UserSpec is POST /api/users/create under concurrent        *)
(* requests.                                                               *)
(*                                                                         *)
(* Strings are sequences of one-character strings, so that                 *)
(* String.prototype.includes, toLowerCase, trim and split(/\s+/) are       *)
(* computed character by character as the JavaScript does.                 *)
(* A JavaScript value is a record [t, a, s, n]: its type tag, and its      *)
(* payload as an array of strings, a string or a number.  Confidence is    *)
(* kept in hundredths (0.5 is 50).                                         *)
(***************************************************************************)
EXTENDS Integers, Sequences, FiniteSets, TLC

\* ------------------------------------------------------------------------
\* Bounds of the model
\* ------------------------------------------------------------------------

\* The longest query, in vocabulary pieces joined by single spaces.
MaxWords == 3

\* ------------------------------------------------------------------------
\* JavaScript strings
\* ------------------------------------------------------------------------

\* The characters /\s/ and String.prototype.trim treat as white space.
IsWhiteSpace(c) == c \in {" ", "\t"}

\* String.prototype.toLowerCase, one character.
LowerChar(c) ==
  CASE c = "A" -> "a" [] c = "B" -> "b" [] c = "C" -> "c" [] c = "D" -> "d"
    [] c = "E" -> "e" [] c = "F" -> "f" [] c = "G" -> "g" [] c = "H" -> "h"
    [] c = "I" -> "i" [] c = "J" -> "j" [] c = "K" -> "k" [] c = "L" -> "l"
    [] c = "M" -> "m" [] c = "N" -> "n" [] c = "O" -> "o" [] c = "P" -> "p"
    [] c = "Q" -> "q" [] c = "R" -> "r" [] c = "S" -> "s" [] c = "T" -> "t"
    [] c = "U" -> "u" [] c = "V" -> "v" [] c = "W" -> "w" [] c = "X" -> "x"
    [] c = "Y" -> "y" [] c = "Z" -> "z" [] OTHER -> c

\* String.prototype.toLowerCase.
toLowerCase(s) == [i \in 1..Len(s) |-> LowerChar(s[i])]

\* A buggy includes: the keyword must start the string (startsWith).
includesPrefixOnly(s, kw) ==
  Len(kw) <= Len(s) /\ SubSeq(s, 1, Len(kw)) = kw

\* A buggy includes: the keyword must be a whole white-space separated token.
includesTokenOnly(s, kw) ==
  \E i \in 0..(Len(s) - Len(kw)) :
    /\ \A j \in 1..Len(kw) : s[i + j] = kw[j]
    /\ (i = 0 \/ IsWhiteSpace(s[i]))
    /\ (i + Len(kw) = Len(s) \/ IsWhiteSpace(s[i + Len(kw) + 1]))

\* String.prototype.includes: kw occurs in s as a contiguous substring.
includes(s, kw) ==
  \/ Len(kw) = 0
  \/ \E i \in 0..(Len(s) - Len(kw)) :
       s[i + 1] = kw[1] /\ \A j \in 2..Len(kw) : s[i + j] = kw[j]

\* String.prototype.trim().length === 0, or the empty string (!tasteQuery).
IsBlankOnlyEmpty(s) == Len(s) = 0

\* parseTasteQuery's guard: !tasteQuery || tasteQuery.trim().length === 0.
IsBlank(s) == Len(s) = 0 \/ \A i \in 1..Len(s) : IsWhiteSpace(s[i])

\* String.prototype.split(/\s+/): scan left to right; a run of white space
\* closes the token read so far (possibly the empty token), the end of the
\* string closes the last one.
RECURSIVE SplitFrom(_, _, _, _)
SplitFrom(s, i, cur, acc) ==
  IF i > Len(s) THEN Append(acc, cur)
  ELSE IF IsWhiteSpace(s[i])
       THEN IF i > 1 /\ IsWhiteSpace(s[i - 1])
            THEN SplitFrom(s, i + 1, cur, acc)
            ELSE SplitFrom(s, i + 1, <<>>, Append(acc, cur))
       ELSE SplitFrom(s, i + 1, Append(cur, s[i]), acc)

splitWhiteSpace(s) == SplitFrom(s, 1, <<>>, <<>>)

\* Array.prototype.includes / membership of a value in an array.
InSeq(x, seq) == \E i \in 1..Len(seq) : seq[i] = x

\* Array.prototype.concat(...).flat() over a table's keyword lists.
RECURSIVE FlattenFrom(_, _)
FlattenFrom(table, i) ==
  IF i > Len(table) THEN <<>> ELSE table[i].kws \o FlattenFrom(table, i + 1)

\* CUISINE_KEYWORDS: canonical tag -> trigger phrases, in declaration order.
CUISINE_KEYWORDS ==
  << [tag |-> <<"i","t","a","l","i","a","n">>,
      kws |-> << <<"p","i","z","z","a">>,
                 <<"p","a","s","t","a">>,
                 <<"r","i","s","o","t","t","o">>,
                 <<"g","e","l","a","t","o">>,
                 <<"i","t","a","l","i","a","n">> >>],
     [tag |-> <<"m","e","x","i","c","a","n">>,
      kws |-> << <<"t","a","c","o","s">>,
                 <<"b","u","r","r","i","t","o">>,
                 <<"e","n","c","h","i","l","a","d","a">>,
                 <<"m","e","x","i","c","a","n">>,
                 <<"s","a","l","s","a">>,
                 <<"q","u","e","s","a","d","i","l","l","a">> >>],
     [tag |-> <<"a","s","i","a","n">>,
      kws |-> << <<"n","o","o","d","l","e">>,
                 <<"r","a","m","e","n">>,
                 <<"p","h","o">>,
                 <<"p","a","d"," ","t","h","a","i">>,
                 <<"c","u","r","r","y">>,
                 <<"s","t","i","r"," ","f","r","y">>,
                 <<"s","u","s","h","i">>,
                 <<"a","s","i","a","n">> >>],
     [tag |-> <<"i","n","d","i","a","n">>,
      kws |-> << <<"c","u","r","r","y">>,
                 <<"t","i","k","k","a">>,
                 <<"n","a","a","n">>,
                 <<"b","i","r","y","a","n","i">>,
                 <<"i","n","d","i","a","n">>,
                 <<"d","o","s","a">> >>],
     [tag |-> <<"j","a","p","a","n","e","s","e">>,
      kws |-> << <<"s","u","s","h","i">>,
                 <<"r","a","m","e","n">>,
                 <<"t","e","m","p","u","r","a">>,
                 <<"t","e","r","i","y","a","k","i">>,
                 <<"j","a","p","a","n","e","s","e">> >>],
     [tag |-> <<"t","h","a","i">>,
      kws |-> << <<"p","a","d"," ","t","h","a","i">>,
                 <<"t","h","a","i">>,
                 <<"c","u","r","r","y">>,
                 <<"c","o","c","o","n","u","t">>,
                 <<"l","e","m","o","n","g","r","a","s","s">> >>],
     [tag |-> <<"a","m","e","r","i","c","a","n">>,
      kws |-> << <<"b","u","r","g","e","r">>,
                 <<"b","b","q">>,
                 <<"f","r","i","e","d">>,
                 <<"s","t","e","a","k">>,
                 <<"w","i","n","g","s">>,
                 <<"a","m","e","r","i","c","a","n">> >>],
     [tag |-> <<"m","e","d","i","t","e","r","r","a","n","e","a","n">>,
      kws |-> << <<"g","r","e","e","k">>,
                 <<"f","a","l","a","f","e","l">>,
                 <<"h","u","m","m","u","s">>,
                 <<"o","l","i","v","e">>,
                 <<"m","e","d","i","t","e","r","r","a","n","e","a","n">> >>],
     [tag |-> <<"f","r","e","n","c","h">>,
      kws |-> << <<"f","r","e","n","c","h">>,
                 <<"c","o","q"," ","a","u"," ","v","i","n">>,
                 <<"d","u","c","k">>,
                 <<"b","o","u","r","g","u","i","g","n","o","n">> >>] >>

\* HEAT_KEYWORDS: canonical tag -> trigger phrases, in declaration order.
HEAT_KEYWORDS ==
  << [tag |-> <<"s","p","i","c","y">>,
      kws |-> << <<"s","p","i","c","y">>,
                 <<"h","o","t">>,
                 <<"f","i","e","r","y">>,
                 <<"j","a","l","a","p","e","ñ","o">>,
                 <<"h","a","b","a","n","e","r","o">>,
                 <<"s","r","i","r","a","c","h","a">>,
                 <<"c","h","i","l","i">> >>],
     [tag |-> <<"m","i","l","d">>,
      kws |-> << <<"m","i","l","d">>,
                 <<"l","i","g","h","t">>,
                 <<"g","e","n","t","l","e">>,
                 <<"n","o","t"," ","s","p","i","c","y">>,
                 <<"f","a","m","i","l","y"," ","f","r","i","e","n","d","l","y">> >>],
     [tag |-> <<"m","e","d","i","u","m">>,
      kws |-> << <<"m","e","d","i","u","m">>,
                 <<"s","o","m","e"," ","h","e","a","t">>,
                 <<"m","o","d","e","r","a","t","e","l","y"," ","s","p","i","c","y">> >>] >>

\* DIETARY_KEYWORDS: canonical tag -> trigger phrases, in declaration order.
DIETARY_KEYWORDS ==
  << [tag |-> <<"v","e","g","a","n">>,
      kws |-> << <<"v","e","g","a","n">>,
                 <<"n","o"," ","m","e","a","t">>,
                 <<"n","o"," ","a","n","i","m","a","l">>,
                 <<"p","l","a","n","t"," ","b","a","s","e","d">> >>],
     [tag |-> <<"v","e","g","e","t","a","r","i","a","n">>,
      kws |-> << <<"v","e","g","e","t","a","r","i","a","n">>,
                 <<"n","o"," ","m","e","a","t">>,
                 <<"m","e","a","t","l","e","s","s">> >>],
     [tag |-> <<"p","e","s","c","e","t","a","r","i","a","n">>,
      kws |-> << <<"p","e","s","c","e","t","a","r","i","a","n">>,
                 <<"f","i","s","h"," ","o","k">>,
                 <<"s","e","a","f","o","o","d"," ","o","k">> >>],
     [tag |-> <<"k","e","t","o">>,
      kws |-> << <<"k","e","t","o">>,
                 <<"l","o","w"," ","c","a","r","b">>,
                 <<"p","r","o","t","e","i","n"," ","h","e","a","v","y">> >>],
     [tag |-> <<"p","a","l","e","o">>,
      kws |-> << <<"p","a","l","e","o">>,
                 <<"p","r","i","m","a","l">> >>],
     [tag |-> <<"g","l","u","t","e","n","f","r","e","e">>,
      kws |-> << <<"g","l","u","t","e","n"," ","f","r","e","e">>,
                 <<"g","l","u","t","e","n","-","f","r","e","e">>,
                 <<"g","f">>,
                 <<"c","e","l","i","a","c">> >>],
     [tag |-> <<"h","a","l","a","l">>,
      kws |-> << <<"h","a","l","a","l">> >>],
     [tag |-> <<"k","o","s","h","e","r">>,
      kws |-> << <<"k","o","s","h","e","r">> >>] >>

\* HEALTH_GOALS_KEYWORDS: canonical tag -> trigger phrases, in declaration order.
HEALTH_GOALS_KEYWORDS ==
  << [tag |-> <<"h","e","a","r","t","-","h","e","a","l","t","h","y">>,
      kws |-> << <<"h","e","a","r","t"," ","h","e","a","l","t","h","y">>,
                 <<"l","o","w"," ","s","o","d","i","u","m">>,
                 <<"l","o","w"," ","f","a","t">>,
                 <<"c","a","r","d","i","a","c">>,
                 <<"h","e","a","l","t","h","y"," ","h","e","a","r","t">> >>],
     [tag |-> <<"l","o","w","-","s","o","d","i","u","m">>,
      kws |-> << <<"l","o","w"," ","s","o","d","i","u","m">>,
                 <<"n","o"," ","s","a","l","t">>,
                 <<"s","a","l","t"," ","f","r","e","e">> >>],
     [tag |-> <<"w","e","i","g","h","t","-","l","o","s","s">>,
      kws |-> << <<"l","i","g","h","t">>,
                 <<"h","e","a","l","t","h","y">>,
                 <<"l","o","w"," ","c","a","l","o","r","i","e">>,
                 <<"d","i","e","t">>,
                 <<"w","e","i","g","h","t"," ","l","o","s","s">> >>],
     [tag |-> <<"m","u","s","c","l","e","-","b","u","i","l","d","i","n","g">>,
      kws |-> << <<"p","r","o","t","e","i","n">>,
                 <<"h","i","g","h"," ","p","r","o","t","e","i","n">>,
                 <<"m","u","s","c","l","e">>,
                 <<"s","t","r","e","n","g","t","h">>,
                 <<"b","o","d","y","b","u","i","l","d","i","n","g">> >>],
     [tag |-> <<"d","i","a","b","e","t","e","s","-","f","r","i","e","n","d","l","y">>,
      kws |-> << <<"d","i","a","b","e","t","e","s">>,
                 <<"l","o","w"," ","s","u","g","a","r">>,
                 <<"n","o"," ","s","u","g","a","r">>,
                 <<"s","u","g","a","r"," ","f","r","e","e">> >>] >>

\* FOOD_TYPE_KEYWORDS: canonical tag -> trigger phrases, in declaration order.
FOOD_TYPE_KEYWORDS ==
  << [tag |-> <<"t","a","c","o","s">>,
      kws |-> << <<"t","a","c","o","s">>,
                 <<"t","a","c","o">> >>],
     [tag |-> <<"n","o","o","d","l","e","s">>,
      kws |-> << <<"n","o","o","d","l","e">>,
                 <<"n","o","o","d","l","e","s">>,
                 <<"r","a","m","e","n">>,
                 <<"p","h","o">>,
                 <<"p","a","d"," ","t","h","a","i">> >>],
     [tag |-> <<"p","i","z","z","a">>,
      kws |-> << <<"p","i","z","z","a">>,
                 <<"p","i","e">> >>],
     [tag |-> <<"b","u","r","g","e","r">>,
      kws |-> << <<"b","u","r","g","e","r">>,
                 <<"b","u","r","g","e","r","s">>,
                 <<"b","e","e","f">> >>],
     [tag |-> <<"f","i","s","h">>,
      kws |-> << <<"f","i","s","h">>,
                 <<"s","e","a","f","o","o","d">>,
                 <<"s","a","l","m","o","n">>,
                 <<"t","u","n","a">>,
                 <<"h","a","l","i","b","u","t">> >>],
     [tag |-> <<"c","h","i","c","k","e","n">>,
      kws |-> << <<"c","h","i","c","k","e","n">>,
                 <<"p","o","u","l","t","r","y">> >>],
     [tag |-> <<"s","t","e","a","k">>,
      kws |-> << <<"s","t","e","a","k">>,
                 <<"b","e","e","f">>,
                 <<"m","e","a","t">> >>],
     [tag |-> <<"s","a","l","a","d">>,
      kws |-> << <<"s","a","l","a","d">>,
                 <<"g","r","e","e","n","s">>,
                 <<"v","e","g","e","t","a","b","l","e","s">> >>],
     [tag |-> <<"s","o","u","p">>,
      kws |-> << <<"s","o","u","p">>,
                 <<"b","r","o","t","h">>,
                 <<"c","h","o","w","d","e","r">> >>],
     [tag |-> <<"s","a","n","d","w","i","c","h">>,
      kws |-> << <<"s","a","n","d","w","i","c","h">>,
                 <<"s","u","b">>,
                 <<"w","r","a","p">> >>] >>

\* PREP_KEYWORDS: canonical tag -> trigger phrases, in declaration order.
PREP_KEYWORDS ==
  << [tag |-> <<"g","r","i","l","l","e","d">>,
      kws |-> << <<"g","r","i","l","l","e","d">>,
                 <<"c","h","a","r","r","e","d">> >>],
     [tag |-> <<"f","r","i","e","d">>,
      kws |-> << <<"f","r","i","e","d">>,
                 <<"d","e","e","p"," ","f","r","i","e","d">>,
                 <<"c","r","i","s","p","y">> >>],
     [tag |-> <<"b","a","k","e","d">>,
      kws |-> << <<"b","a","k","e","d">>,
                 <<"r","o","a","s","t","e","d">> >>],
     [tag |-> <<"r","a","w">>,
      kws |-> << <<"r","a","w">>,
                 <<"f","r","e","s","h">> >>],
     [tag |-> <<"s","t","e","a","m","e","d">>,
      kws |-> << <<"s","t","e","a","m","e","d">>,
                 <<"b","o","i","l","e","d">> >>] >>

\* ------------------------------------------------------------------------
\* JavaScript values and the TasteAttributes object
\* ------------------------------------------------------------------------

Undefined == [t |-> "undefined", a |-> <<>>, s |-> <<>>, n |-> 0]
Arr(x)    == [t |-> "array",     a |-> x,    s |-> <<>>, n |-> 0]
Str(x)    == [t |-> "string",    a |-> <<>>, s |-> x,    n |-> 0]
Num(x)    == [t |-> "number",    a |-> <<>>, s |-> <<>>, n |-> x]

\* The keyword parser's fixed confidence, 0.5, in hundredths.
KEYWORD_CONFIDENCE == 50

NONE == <<"n","o","n","e">>

\* The object parseTasteQuery returns for an empty or blank query.
EmptyAttributes ==
  [cuisines |-> Arr(<<>>), heat |-> Str(NONE), dietary |-> Arr(<<>>),
   healthGoals |-> Arr(<<>>), foodTypes |-> Arr(<<>>),
   prepMethods |-> Arr(<<>>), ingredients |-> Arr(<<>>),
   restrictions |-> Arr(<<>>), confidence |-> Num(0)]

\* ------------------------------------------------------------------------
\* parseWithKeywords
\* ------------------------------------------------------------------------

\* keywords.some(kw => query.includes(kw))
someKeyword(query, kws) == \E k \in 1..Len(kws) : includes(query, kws[k])

\* for (const [tag, keywords] of Object.entries(TABLE))
\*   if (keywords.some(...)) result.field.push(tag);
RECURSIVE detectFrom(_, _, _, _)
detectFrom(table, query, i, acc) ==
  IF i > Len(table) THEN acc
  ELSE detectFrom(table, query, i + 1,
                  IF someKeyword(query, table[i].kws)
                  THEN Append(acc, table[i].tag) ELSE acc)

detect(table, query) == detectFrom(table, query, 1, <<>>)

\* A buggy heat loop without the break: the last matching level wins.
RECURSIVE heatLastFrom(_, _, _)
heatLastFrom(query, i, level) ==
  IF i > Len(HEAT_KEYWORDS) THEN level
  ELSE heatLastFrom(query, i + 1,
                    IF someKeyword(query, HEAT_KEYWORDS[i].kws)
                    THEN HEAT_KEYWORDS[i].tag ELSE level)

detectHeatNoBreak(query) == heatLastFrom(query, 1, NONE)

\* for (const [level, keywords] of Object.entries(HEAT_KEYWORDS))
\*   if (keywords.some(...)) { result.heat = level; break; }
RECURSIVE heatFrom(_, _)
heatFrom(query, i) ==
  IF i > Len(HEAT_KEYWORDS) THEN NONE
  ELSE IF someKeyword(query, HEAT_KEYWORDS[i].kws)
       THEN HEAT_KEYWORDS[i].tag
       ELSE heatFrom(query, i + 1)

detectHeat(query) == heatFrom(query, 1)

\* Object.values(CUISINE_KEYWORDS).concat(...).flat()
allKeywords ==
  FlattenFrom(CUISINE_KEYWORDS, 1) \o FlattenFrom(HEAT_KEYWORDS, 1)
    \o FlattenFrom(DIETARY_KEYWORDS, 1) \o FlattenFrom(HEALTH_GOALS_KEYWORDS, 1)
    \o FlattenFrom(FOOD_TYPE_KEYWORDS, 1) \o FlattenFrom(PREP_KEYWORDS, 1)

STOP_AND  == <<"a","n","d">>
STOP_WITH == <<"w","i","t","h">>

\* A buggy ingredient filter that forgets the stop words.
keepWordNoStop(w) == Len(w) > 2 /\ ~InSeq(w, allKeywords)

\* w => w.length > 2 && !allKeywords.includes(w) && w !== 'and' && w !== 'with'
keepWord(w) == Len(w) > 2 /\ ~InSeq(w, allKeywords) /\ w # STOP_AND /\ w # STOP_WITH

\* words.filter(keepWord), order and duplicates kept.
extractIngredients(query) == SelectSeq(splitWhiteSpace(query), keepWord)

parseWithKeywords(tasteQuery) ==
  LET query == toLowerCase(tasteQuery) IN
  [cuisines     |-> Arr(detect(CUISINE_KEYWORDS, query)),
   heat         |-> Str(detectHeat(query)),
   dietary      |-> Arr(detect(DIETARY_KEYWORDS, query)),
   healthGoals  |-> Arr(detect(HEALTH_GOALS_KEYWORDS, query)),
   foodTypes    |-> Arr(detect(FOOD_TYPE_KEYWORDS, query)),
   prepMethods  |-> Arr(detect(PREP_KEYWORDS, query)),
   ingredients  |-> Arr(extractIngredients(query)),
   restrictions |-> Arr(<<>>),
   confidence   |-> Num(KEYWORD_CONFIDENCE)]

\* ------------------------------------------------------------------------
\* parseWithGemma: the text the model returns, the regular expression that
\* cuts a JSON object out of it, and JSON.parse
\* ------------------------------------------------------------------------

\* The model's text is a sequence of chunks: an opening brace, a closing
\* brace, prose holding no brace, or the member list of one JSON object
\* ("cuisines": [...], "heat": ..., ...), named by the object it denotes.
LBRACE == "{"
RBRACE == "}"
PROSE  == "prose"

THAI   == <<"t","h","a","i">>
SPICY  == <<"s","p","i","c","y">>
KOREAN == <<"k","o","r","e","a","n">>
HOT    == <<"h","o","t">>
NOODLES == <<"n","o","o","d","l","e","s">>

\* The objects the member-list chunks denote.  "full" is what the prompt
\* asks for; "offTaxonomy" holds tags outside the tables and confidence 0;
\* "mistyped" gives strings for arrays.
MemberChunks == {"full", "offTaxonomy", "mistyped"}

MembersObject(chunk) ==
  CASE chunk = "full" ->
         [cuisines |-> Arr(<<THAI>>), heat |-> Str(SPICY),
          dietary |-> Arr(<<>>), healthGoals |-> Arr(<<>>),
          foodTypes |-> Arr(<<NOODLES>>), prepMethods |-> Arr(<<>>),
          ingredients |-> Arr(<<>>), restrictions |-> Arr(<<>>),
          confidence |-> Num(95)]
    [] chunk = "offTaxonomy" ->
         [cuisines |-> Arr(<<KOREAN>>), heat |-> Str(HOT),
          dietary |-> Arr(<<>>), healthGoals |-> Arr(<<>>),
          foodTypes |-> Arr(<<>>), prepMethods |-> Arr(<<>>),
          ingredients |-> Arr(<<>>), restrictions |-> Arr(<<>>),
          confidence |-> Num(0)]
    [] chunk = "mistyped" ->
         [cuisines |-> Str(THAI), heat |-> Str(SPICY),
          dietary |-> Arr(<<>>), healthGoals |-> Arr(<<>>),
          foodTypes |-> Str(NOODLES), prepMethods |-> Arr(<<>>),
          ingredients |-> Arr(<<>>), restrictions |-> Arr(<<>>),
          confidence |-> Num(95)]

\* The object JSON.parse("{}") returns: every property is undefined.
EmptyObject ==
  [cuisines |-> Undefined, heat |-> Undefined, dietary |-> Undefined,
   healthGoals |-> Undefined, foodTypes |-> Undefined,
   prepMethods |-> Undefined, ingredients |-> Undefined,
   restrictions |-> Undefined, confidence |-> Undefined]

\* The texts the service is taken to answer with.
GemmaTexts ==
  { <<PROSE, LBRACE, "full", RBRACE, PROSE>>,
    <<LBRACE, "offTaxonomy", RBRACE>>,
    <<LBRACE, "mistyped", RBRACE>>,
    <<LBRACE, RBRACE>>,
    <<PROSE>>,
    <<RBRACE, PROSE, LBRACE>>,
    <<LBRACE, PROSE, RBRACE>>,
    <<LBRACE, "full", RBRACE, PROSE, LBRACE, "offTaxonomy", RBRACE>> }

\* Positions of a chunk in a text.
Positions(text, c) == {i \in 1..Len(text) : text[i] = c}

Min(S) == CHOOSE x \in S : \A y \in S : x <= y
Max(S) == CHOOSE x \in S : \A y \in S : x >= y

\* responseText.match(/\{[\s\S]*\}/): the leftmost "{" that a "}" follows,
\* up to the last "}" of the text (the star is greedy); null otherwise.
jsonMatch(text) ==
  LET opens  == Positions(text, LBRACE)
      closes == Positions(text, RBRACE)
  IN IF opens # {} /\ closes # {} /\ Min(opens) < Max(closes)
     THEN [found |-> TRUE,  str |-> SubSeq(text, Min(opens), Max(closes))]
     ELSE [found |-> FALSE, str |-> <<>>]

\* JSON.parse of a matched text: "{}" or "{" members "}" is an object; any
\* other chunk sequence is a SyntaxError.
JSONparse(str) ==
  IF str = <<LBRACE, RBRACE>>
  THEN [ok |-> TRUE, obj |-> EmptyObject]
  ELSE IF Len(str) = 3 /\ str[1] = LBRACE /\ str[3] = RBRACE
          /\ str[2] \in MemberChunks
       THEN [ok |-> TRUE, obj |-> MembersObject(str[2])]
       ELSE [ok |-> FALSE, obj |-> EmptyObject]

\* What the awaited axios.post settles with: an error (service unreachable,
\* HTTP error status), a body without a "response" property, or a body whose
\* "response" is a text.
Replies ==
  {[kind |-> "error", text |-> <<>>], [kind |-> "noField", text |-> <<>>]}
    \cup {[kind |-> "text", text |-> t] : t \in GemmaTexts}

NoReply == [kind |-> "none", text |-> <<>>]

\* A buggy parseWithGemma that answers the empty attributes on a failure
\* instead of null.
parseWithGemmaNoNull(reply) ==
  IF reply.kind = "text" /\ jsonMatch(reply.text).found
     /\ JSONparse(jsonMatch(reply.text).str).ok
  THEN [isNull |-> FALSE, obj |-> JSONparse(jsonMatch(reply.text).str).obj]
  ELSE [isNull |-> FALSE, obj |-> EmptyAttributes]

\* parseWithGemma after the await: inside the try, read response.data.response
\* (a TypeError on match when it is undefined), match, JSON.parse; every throw
\* is caught and the function returns null.
parseWithGemma(reply) ==
  IF reply.kind = "text" /\ jsonMatch(reply.text).found
     /\ JSONparse(jsonMatch(reply.text).str).ok
  THEN [isNull |-> FALSE, obj |-> JSONparse(jsonMatch(reply.text).str).obj]
  ELSE [isNull |-> TRUE, obj |-> EmptyObject]

\* ------------------------------------------------------------------------
\* The readers of the parsed attributes: where they throw
\* ------------------------------------------------------------------------

\* x.length throws a TypeError when x is undefined.
lengthThrows(v) == v.t = "undefined"

\* if (x.length > 0) { x.forEach(...) }: reading length of undefined throws;
\* a non-empty string has a length but no forEach; a number has neither and
\* the guard is false.
guardedForEachThrows(v) ==
  lengthThrows(v) \/ (v.t = "string" /\ Len(v.s) > 0)

\* x.some(...): a TypeError unless x is an array.
someThrows(v) == v.t # "array"

\* scoreMealAgainstTaste throws on these attributes (whatever the meal).
scoreMealAgainstTasteThrows(ta) ==
  \/ guardedForEachThrows(ta.cuisines)
  \/ guardedForEachThrows(ta.foodTypes)
  \/ guardedForEachThrows(ta.prepMethods)
  \/ guardedForEachThrows(ta.ingredients)
  \/ lengthThrows(ta.healthGoals)

\* calculateRestaurantMatchScore throws on these attributes.
calculateRestaurantMatchScoreThrows(ta) ==
  guardedForEachThrows(ta.cuisines) \/ guardedForEachThrows(ta.dietary)

\* generateMatchReasons throws on these attributes.
generateMatchReasonsThrows(ta) ==
  \/ someThrows(ta.cuisines)
  \/ someThrows(ta.foodTypes)
  \/ someThrows(ta.ingredients)
  \/ someThrows(ta.prepMethods)

\* ------------------------------------------------------------------------
\* The queries parseTasteQuery is called with
\* ------------------------------------------------------------------------

VEGETARIAN   == <<"v","e","g","e","t","a","r","i","a","n">>
TACOS        == <<"t","a","c","o","s">>
THAILAND     == <<"T","h","a","i","l","a","n","d">>
MILD         == <<"m","i","l","d">>
MEDIUM       == <<"m","e","d","i","u","m">>
\* "Thailand and": a capital, a word that only holds a trigger, a stop word.
THAILAND_AND == THAILAND \o <<" ">> \o STOP_AND
\* "medium" and "with", a tab between them: white space other than the space.
MEDIUM_WITH  == MEDIUM \o <<"\t">> \o STOP_WITH

\* The pieces a query is made of.  The empty piece gives the empty query,
\* blank queries, and leading, trailing and repeated white space.
Vocabulary ==
  { <<>>, SPICY, VEGETARIAN, TACOS, THAILAND_AND, MILD, MEDIUM_WITH }

RECURSIVE Join(_)
Join(ws) ==
  IF Len(ws) = 0 THEN <<>>
  ELSE IF Len(ws) = 1 THEN ws[1]
       ELSE ws[1] \o <<" ">> \o Join(Tail(ws))

Queries ==
  { Join(ws) : ws \in UNION { [1..n -> Vocabulary] : n \in 0..MaxWords } }

\* ------------------------------------------------------------------------
\* State
\* ------------------------------------------------------------------------

VARIABLES
  query,     \* the argument of parseTasteQuery
  useGemma,  \* process.env.USE_LOCAL_GEMMA === 'true'
  pc,        \* where the async call stands: start, awaitGemma, returned
  reply,     \* what the awaited axios.post settled with
  result,    \* the value the promise of parseTasteQuery resolved with
  requests,  \* the number of requests issued to the text-generation service
  \* One restaurant's task in the search-by-taste handler:
  allergies,            \* req.body.allergies
  dietaryRestrictions,  \* req.body.dietaryRestrictions
  menuItems,            \* what mealmeService.getMenuItems resolved with
  hpc,                  \* idle, menu, filtered, ranked, direct, done
  filtered,             \* what filterItemsByPreferences returned
  meals,                \* the scored meals
  restaurant,           \* the restaurant the task is about
  matchScore,           \* what calculateRestaurantMatchScore returned
  \* One search-by-taste request over the restaurants found:
  found,                \* the restaurants the search services returned
  slots,                \* the promises of the per-restaurant tasks, in order
  completionOrder,      \* the tasks that awaited a menu, as they settled
  spc,                  \* idle, found, running, responded
  response,             \* what the handler sent
  \* POST /api/users/create:
  users,                \* the documents of the users collection
  creates               \* the create requests under way

parserVars == <<query, useGemma, pc, reply, result, requests>>

menuVars ==
  <<allergies, dietaryRestrictions, menuItems, hpc, filtered, meals,
    restaurant, matchScore>>

searchVars == <<found, slots, completionOrder, spc, response>>

userVars == <<users, creates>>

vars == <<parserVars, menuVars, searchVars, userVars>>

\* The restaurant of a task that has not read it yet.
NoRestaurant == [name |-> <<>>, dietaryOptions |-> Undefined, rating |-> Undefined]

\* Nothing sent yet.
NoResponse == [status |-> 0, restaurants |-> <<>>]

\* No search request is under way.
SearchIdle ==
  /\ found = <<>>
  /\ slots = <<>>
  /\ completionOrder = <<>>
  /\ spc = "idle"
  /\ response = NoResponse

\* No create request is under way and the collection is empty.
UsersIdle ==
  /\ users = {}
  /\ creates = <<>>

\* No restaurant task is under way.
MenuIdle ==
  /\ allergies = <<>>
  /\ dietaryRestrictions = <<>>
  /\ menuItems = <<>>
  /\ hpc = "idle"
  /\ filtered = <<>>
  /\ meals = <<>>
  /\ restaurant = NoRestaurant
  /\ matchScore = 0

Init ==
  /\ query \in Queries
  /\ useGemma \in BOOLEAN
  /\ pc = "start"
  /\ reply = NoReply
  /\ result = EmptyObject
  /\ requests = 0
  /\ MenuIdle
  /\ SearchIdle
  /\ UsersIdle

\* ------------------------------------------------------------------------
\* parseTasteQuery
\* ------------------------------------------------------------------------

\* parseTasteQuery from the await on: return gemmaResult when it is truthy,
\* else the value of parseWithKeywords(tasteQuery).  parseWithKeywords is pure
\* and total, so its value is handed in rather than computed here.
parseTasteQueryResume(gemmaResult, keywordResult) ==
  IF ~gemmaResult.isNull THEN gemmaResult.obj ELSE keywordResult

\* The query is empty or blank: the empty attributes, at once.
ReturnEmpty ==
  /\ pc = "start"
  /\ IsBlank(query)
  /\ result' = EmptyAttributes
  /\ pc' = "returned"
  /\ UNCHANGED <<query, useGemma, reply, requests>>
  /\ UNCHANGED <<menuVars, searchVars, userVars>>

\* USE_LOCAL_GEMMA is not 'true': the keyword parser, synchronously.
ReturnKeywords ==
  /\ pc = "start"
  /\ ~IsBlank(query)
  /\ ~useGemma
  /\ result' = parseWithKeywords(query)
  /\ pc' = "returned"
  /\ UNCHANGED <<query, useGemma, reply, requests>>
  /\ UNCHANGED <<menuVars, searchVars, userVars>>

\* A parser that posts again while the first post is still awaited.
PostToGemmaRetry ==
  /\ pc \in {"start", "awaitGemma"}
  /\ ~IsBlank(query)
  /\ useGemma
  /\ requests < 2
  /\ requests' = requests + 1
  /\ pc' = "awaitGemma"
  /\ UNCHANGED <<query, useGemma, reply, result>>
  /\ UNCHANGED <<menuVars, searchVars, userVars>>

\* USE_LOCAL_GEMMA is 'true': parseWithGemma posts the prompt and awaits.
\* axios.post is given no timeout, so nothing but the service settles it.
PostToGemma ==
  /\ pc = "start"
  /\ ~IsBlank(query)
  /\ useGemma
  /\ requests' = requests + 1
  /\ pc' = "awaitGemma"
  /\ UNCHANGED <<query, useGemma, reply, result>>
  /\ UNCHANGED <<menuVars, searchVars, userVars>>

\* The awaited post settles (the service answers or the connection fails):
\* parseWithGemma and then parseTasteQuery run to their return.
GemmaSettles ==
  /\ pc = "awaitGemma"
  /\ \E keywordResult \in {parseWithKeywords(query)} :
       \E r \in Replies :
         /\ reply' = r
         /\ result' = parseTasteQueryResume(parseWithGemma(r), keywordResult)
  /\ pc' = "returned"
  /\ UNCHANGED <<query, useGemma, requests>>
  /\ UNCHANGED <<menuVars, searchVars, userVars>>

\* The steps the program takes on its own.
ProgramNext == ReturnEmpty \/ ReturnKeywords \/ PostToGemma

Next == ProgramNext \/ GemmaSettles

Spec == Init /\ [][Next]_vars

\* The program's own steps are taken when they can be; the service is under
\* no obligation to answer.
FairSpec == Spec /\ WF_vars(ProgramNext)

\* ------------------------------------------------------------------------
\* Vocabulary of the properties, stated apart from the operators above
\* ------------------------------------------------------------------------

\* kw is a contiguous substring of s.
OccursIn(kw, s) ==
  \E i \in 1..(Len(s) - Len(kw) + 1) :
    s[i] = kw[1] /\ \A j \in 2..Len(kw) : s[i + j - 1] = kw[j]

\* Some trigger phrase of row i of a table occurs in the lower-cased query lq.
RowTriggered(table, i, lq) ==
  \E k \in 1..Len(table[i].kws) : OccursIn(table[i].kws[k], lq)

\* The query, lower-cased.
LowerQuery == toLowerCase(query)

NoDuplicates(seq) ==
  \A i, j \in 1..Len(seq) : seq[i] = seq[j] => i = j

TagsOf(table) == {table[i].tag : i \in 1..Len(table)}

Elements(seq) == {seq[i] : i \in 1..Len(seq)}

\* The query holds a character that is not white space.
NonBlank(q) == \E i \in 1..Len(q) : q[i] \notin {" ", "\t"}

\* The call returned and the keyword strategy was the configured one.
ReturnedByKeywords == pc = "returned" /\ ~useGemma /\ NonBlank(query)

\* A field of the result holds exactly the triggered tags of its table, once.
FieldMatchesTable(field, table) ==
  /\ field.t = "array"
  /\ NoDuplicates(field.a)
  /\ Elements(field.a) \subseteq TagsOf(table)
  /\ \A i \in 1..Len(table) :
       InSeq(table[i].tag, field.a) <=> RowTriggered(table, i, LowerQuery)

MEXICAN == <<"m","e","x","i","c","a","n">>

SpicyVegetarianTacos == Join(<<SPICY, VEGETARIAN, TACOS>>)
SpicyTacos == Join(<<SPICY, TACOS>>)

\* The external call failed: the post was rejected, the body had no text, or
\* the text holds no JSON object or a malformed one.
FailingTexts ==
  { <<PROSE>>, <<RBRACE, PROSE, LBRACE>>, <<LBRACE, PROSE, RBRACE>> }

GemmaCallFailed ==
  \/ reply.kind \in {"error", "noField"}
  \/ reply.kind = "text" /\ reply.text \in FailingTexts

\* ------------------------------------------------------------------------
\* Properties
\* ------------------------------------------------------------------------

\* C1: with model-assisted parsing enabled, when the external call fails in
\* any way (rejected, malformed JSON, no JSON object), parseTasteQuery returns
\* exactly the keyword-strategy result for the same query.
C1_FallbackOnFailure ==
  (pc = "returned" /\ useGemma /\ GemmaCallFailed)
    => result = parseWithKeywords(query)

C1_Witness ==
  /\ pc = "returned" /\ useGemma
  /\ query = SpicyTacos
  /\ reply = [kind |-> "text", text |-> <<LBRACE, PROSE, RBRACE>>]
  /\ result.cuisines = Arr(<<MEXICAN>>)
  /\ result.confidence = Num(KEYWORD_CONFIDENCE)

\* C2: whatever text the model returns, the value parseTasteQuery returns is
\* one on which scoreItem, matchReasons and matchScoreForRestaurant complete
\* without error.
C2_NoCascade ==
  pc = "returned" =>
    /\ ~scoreMealAgainstTasteThrows(result)
    /\ ~calculateRestaurantMatchScoreThrows(result)
    /\ ~generateMatchReasonsThrows(result)

\* C3: with model-assisted parsing enabled, parseTasteQuery eventually returns
\* even when the service never responds.
C3_EventuallyReturns == <>(pc = "returned")

\* C4: for every non-blank query, under either strategy, the returned
\* confidence is > 0; under the keyword strategy it is exactly 0.5.
C4_PositiveConfidence ==
  (pc = "returned" /\ NonBlank(query)) =>
    /\ result.confidence.t = "number"
    /\ result.confidence.n > 0
    /\ (~useGemma => result.confidence.n = KEYWORD_CONFIDENCE)

\* C5: for an empty or blank query parseTasteQuery returns confidence 0, heat
\* 'none' and every list empty, whichever strategy is configured, and never
\* contacts the text-generation service.
C5_BlankQuery ==
  ~NonBlank(query) =>
    /\ requests = 0
    /\ pc # "awaitGemma"
    /\ reply.kind = "none"
    /\ pc = "returned" =>
         /\ result.confidence = Num(0)
         /\ result.heat = Str(NONE)
         /\ \A f \in {"cuisines", "dietary", "healthGoals", "foodTypes",
                      "prepMethods", "ingredients", "restrictions"} :
              result[f] = Arr(<<>>)

C5_Witness ==
  /\ pc = "returned" /\ useGemma
  /\ Len(query) > 0 /\ ~NonBlank(query)
  /\ result.confidence = Num(0)

C7_HeatFirstDeclared ==
  ReturnedByKeywords =>
    /\ <<HEAT_KEYWORDS[1].tag, HEAT_KEYWORDS[2].tag, HEAT_KEYWORDS[3].tag>>
         = <<SPICY, MILD, MEDIUM>>
    /\ result.heat =
         Str(IF RowTriggered(HEAT_KEYWORDS, 1, LowerQuery) THEN SPICY
             ELSE IF RowTriggered(HEAT_KEYWORDS, 2, LowerQuery) THEN MILD
             ELSE IF RowTriggered(HEAT_KEYWORDS, 3, LowerQuery) THEN MEDIUM
             ELSE NONE)

C7_Witness ==
  /\ ReturnedByKeywords
  /\ query = Join(<<MEDIUM_WITH, MILD, SPICY>>)
  /\ result.heat = Str(SPICY)

\* C8: keyword parsing of 'spicy vegetarian tacos' yields cuisines containing
\* mexican, heat spicy, dietary containing vegetarian, foodTypes containing
\* tacos; 'spicy tacos' yields cuisine mexican, heat spicy, food type tacos.
C8_Scenario ==
  (pc = "returned" /\ ~useGemma) =>
    /\ query = SpicyVegetarianTacos =>
         /\ InSeq(MEXICAN, result.cuisines.a)
         /\ result.heat = Str(SPICY)
         /\ InSeq(VEGETARIAN, result.dietary.a)
         /\ InSeq(TACOS, result.foodTypes.a)
    /\ query = SpicyTacos =>
         /\ InSeq(MEXICAN, result.cuisines.a)
         /\ result.heat = Str(SPICY)
         /\ InSeq(TACOS, result.foodTypes.a)

C8_Witness ==
  /\ pc = "returned" /\ ~useGemma
  /\ query = SpicyVegetarianTacos
  /\ result.cuisines = Arr(<<MEXICAN>>)
  /\ result.foodTypes = Arr(<<TACOS>>)

\* The white-space separated tokens of s: its maximal runs of characters that
\* are not white space, from left to right.
TokenStarts(s) ==
  {i \in 1..Len(s) :
     s[i] \notin {" ", "\t"} /\ (i = 1 \/ s[i - 1] \in {" ", "\t"})}

TokenEnd(s, i) ==
  CHOOSE j \in i..Len(s) :
    /\ \A k \in i..j : s[k] \notin {" ", "\t"}
    /\ (j = Len(s) \/ s[j + 1] \in {" ", "\t"})

RECURSIVE Ascending(_)
Ascending(S) ==
  IF S = {} THEN <<>>
  ELSE LET m == CHOOSE x \in S : \A y \in S : x <= y
       IN <<m>> \o Ascending(S \ {m})

TokensOf(s) ==
  LET starts == Ascending(TokenStarts(s))
  IN [n \in 1..Len(starts) |-> SubSeq(s, starts[n], TokenEnd(s, starts[n]))]

\* Every trigger phrase of every table.
TriggerPhrases ==
  UNION { Elements(T[i].kws) : <<T, i>> \in
            UNION { {<<U, j>> : j \in 1..Len(U)} :
                    U \in {CUISINE_KEYWORDS, HEAT_KEYWORDS, DIETARY_KEYWORDS,
                           HEALTH_GOALS_KEYWORDS, FOOD_TYPE_KEYWORDS,
                           PREP_KEYWORDS} } }

IsIngredientToken(w) ==
  Len(w) > 2 /\ w \notin TriggerPhrases /\ w \notin {STOP_AND, STOP_WITH}

C10_CanonicalTags ==
  pc = "returned" =>
    /\ Elements(result.cuisines.a) \subseteq TagsOf(CUISINE_KEYWORDS)
    /\ Elements(result.dietary.a) \subseteq TagsOf(DIETARY_KEYWORDS)
    /\ Elements(result.healthGoals.a) \subseteq TagsOf(HEALTH_GOALS_KEYWORDS)
    /\ Elements(result.foodTypes.a) \subseteq TagsOf(FOOD_TYPE_KEYWORDS)
    /\ Elements(result.prepMethods.a) \subseteq TagsOf(PREP_KEYWORDS)
    /\ result.heat.t = "string"
    /\ result.heat.s \in {NONE, MILD, MEDIUM, SPICY}

\* ------------------------------------------------------------------------
\* The requests and menus the search-by-taste handler is given
\* ------------------------------------------------------------------------

\* The longest menu, in items.
MaxItems == 2

VEGAN        == <<"v","e","g","a","n">>
PESCETARIAN  == <<"p","e","s","c","e","t","a","r","i","a","n">>
SOY          == <<"s","o","y">>
LOW_FAT      == <<"l","o","w"," ","f","a","t">>
HEALTHY      == <<"h","e","a","l","t","h","y">>
HIGH_PROTEIN == <<"h","i","g","h"," ","p","r","o","t","e","i","n">>
LOW_SODIUM   == <<"l","o","w"," ","s","o","d","i","u","m">>

\* The item of the scoring scenario: labelled vegetarian only.
SpicyVeggieTaco ==
  [name |-> <<"S","p","i","c","y"," ","V","e","g","g","i","e"," ","T","a","c","o">>,
   description |-> <<>>,
   ingredients |-> <<>>,
   allergens |-> <<>>,
   dietary_labels |-> <<<<"v","e","g","e","t","a","r","i","a","n">>>>,
   available |-> TRUE]

\* Declares the allergen with a capital; labelled vegan only.
SoyTacos ==
  [name |-> <<"T","a","c","o","s">>,
   description |-> <<>>,
   ingredients |-> <<<<"T","o","f","u">>>>,
   allergens |-> <<<<"S","o","y">>>>,
   dietary_labels |-> <<<<"v","e","g","a","n">>>>,
   available |-> TRUE]

\* Names three cuisines and a food type; its label has a capital.
ThaiNoodles ==
  [name |-> <<"T","h","a","i"," ","I","n","d","i","a","n"," ","A","s","i","a","n"," ","N","o","o","d","l","e","s">>,
   description |-> <<>>,
   ingredients |-> <<>>,
   allergens |-> <<<<"p","e","a","n","u","t","s">>>>,
   dietary_labels |-> <<<<"V","e","g","e","t","a","r","i","a","n">>>>,
   available |-> TRUE]

\* Names an allergen in its text only; labelled pescetarian only.
VeganSalad ==
  [name |-> <<"V","e","g","a","n"," ","S","a","l","a","d">>,
   description |->
     <<"P","e","s","c","e","t","a","r","i","a","n",","," ","s","o","y"," ","d","r","e","s","s","i","n","g">>,
   ingredients |-> <<>>,
   allergens |-> <<>>,
   dietary_labels |-> <<<<"p","e","s","c","e","t","a","r","i","a","n">>>>,
   available |-> TRUE]

\* Unavailable.
MexicanTacos ==
  [name |-> <<"M","e","x","i","c","a","n"," ","T","a","c","o","s">>,
   description |-> <<>>,
   ingredients |-> <<>>,
   allergens |-> <<>>,
   dietary_labels |-> <<<<"v","e","g","a","n">>, <<"v","e","g","e","t","a","r","i","a","n">>>>,
   available |-> FALSE]

\* A description that names every tag of RichQuery but the first of its
\* preparation methods, and two of the health keywords.
WorldPlatter ==
  [name |-> <<"W","o","r","l","d"," ","P","l","a","t","t","e","r">>,
   description |->
     <<"I","t","a","l","i","a","n"," ","M","e","x","i","c","a","n"," ",
       "A","s","i","a","n"," ","I","n","d","i","a","n"," ","J","a","p",
       "a","n","e","s","e"," ","T","h","a","i"," ","A","m","e","r","i",
       "c","a","n"," ","M","e","d","i","t","e","r","r","a","n","e","a",
       "n"," ","F","r","e","n","c","h"," ","t","a","c","o","s"," ","n",
       "o","o","d","l","e","s"," ","p","i","z","z","a"," ","b","u","r",
       "g","e","r"," ","f","r","i","e","d"," ","b","a","k","e","d"," ",
       "h","e","a","l","t","h","y"," ","l","o","w"," ","f","a","t">>,
   ingredients |-> <<>>,
   allergens |-> <<>>,
   dietary_labels |-> <<<<"H","a","l","a","l">>>>,
   available |-> TRUE]

Catalogue ==
  {SpicyVeggieTaco, SoyTacos, ThaiNoodles, VeganSalad, MexicanTacos, WorldPlatter}

\* A menu longer than the five meals the handler keeps; its best items for
\* a Thai query are its last two.
LongMenu ==
  <<VeganSalad, SpicyVeggieTaco, SoyTacos, MexicanTacos, VeganSalad,
    SpicyVeggieTaco, WorldPlatter, ThaiNoodles>>

\* The menus getMenuItems resolves with; an item may be listed twice.
Menus == UNION { [1..n -> Catalogue] : n \in 0..MaxItems } \cup {LongMenu}

\* req.body.allergies.
AllergyLists ==
  { <<>>, <<SOY>>, <<<<"P","e","a","n","u","t","s">>, <<"s","o","y">>>> }

\* req.body.dietaryRestrictions.
DietaryLists ==
  { <<>>, <<VEGETARIAN>>, <<VEGAN>>, <<PESCETARIAN>>,
    <<<<"V","e","g","a","n">>, <<"v","e","g","e","t","a","r","i","a","n">>>> }

\* The taste queries of the searches.
ThaiCurryNoodles == <<"t","h","a","i"," ","c","u","r","r","y"," ","n","o","o","d","l","e","s">>
RichQuery ==
  Join(<< <<"p","a","d"," ","t","h","a","i"," ","c","u","r","r","y"," ","s","u","s","h","i">>,
          <<"p","i","z","z","a"," ","t","a","c","o","s"," ","b","u","r","g","e","r">>,
          <<"g","r","e","e","k"," ","f","r","e","n","c","h">>,
          <<"g","r","i","l","l","e","d"," ","f","r","i","e","d"," ","b","a","k","e","d"," ","h","e","a","l","t","h","y">> >>)

\* A query that names an ingredient twice.
TofuTofuTacos == <<"t","o","f","u"," ","t","o","f","u"," ","t","a","c","o","s">>

SearchQueries ==
  {SpicyVegetarianTacos, ThaiCurryNoodles, RichQuery, TofuTofuTacos}

\* The restaurants; rating is in tenths (4.5 is 45).
MexicanGrill ==
  [name |-> <<"M","e","x","i","c","a","n"," ","G","r","i","l","l">>,
   dietaryOptions |-> Arr(<<<<"V","e","g","e","t","a","r","i","a","n">>>>),
   rating |-> Num(45)]
ThaiAsianKitchen ==
  [name |-> <<"T","h","a","i"," ","A","s","i","a","n"," ","K","i","t","c","h","e","n">>,
   dietaryOptions |-> Arr(<<>>),
   rating |-> Num(40)]
Diner ==
  [name |-> <<"D","i","n","e","r">>,
   dietaryOptions |-> Undefined,
   rating |-> Undefined]

Restaurants == {MexicanGrill, ThaiAsianKitchen, Diner}

\* ------------------------------------------------------------------------
\* MealMeService.filterItemsByPreferences
\* ------------------------------------------------------------------------

\* arr.map(x => x.toLowerCase())
mapToLowerCase(arr) == [i \in 1..Len(arr) |-> toLowerCase(arr[i])]

\* The allergen test with the item's tags compared as they are written.
hasAllergenCaseSensitive(item, allergens) ==
  \E k \in 1..Len(allergens) : InSeq(toLowerCase(allergens[k]), item.allergens)

\* allergens.some(a => itemAllergens.includes(a.toLowerCase())), where
\* Array.prototype.includes compares whole elements.
hasAllergen(item, allergens) ==
  LET itemAllergens == mapToLowerCase(item.allergens) IN
  \E k \in 1..Len(allergens) : InSeq(toLowerCase(allergens[k]), itemAllergens)

\* The callback of every without the implication rules.
meetsRestrictionNoImplication(itemLabels, restriction) ==
  InSeq(toLowerCase(restriction), itemLabels)

\* The callback of dietaryRestrictions.every: the label itself, or a label
\* that implies it.
meetsRestriction(itemLabels, restriction) ==
  LET restrictionLower == toLowerCase(restriction) IN
  IF InSeq(restrictionLower, itemLabels) THEN TRUE
  ELSE IF restrictionLower = VEGETARIAN /\ InSeq(VEGAN, itemLabels) THEN TRUE
  ELSE IF /\ restrictionLower = PESCETARIAN
          /\ (InSeq(VEGAN, itemLabels) \/ InSeq(VEGETARIAN, itemLabels))
       THEN TRUE
  ELSE FALSE

\* some in the place of every.
meetsSomeRestriction(item, restrictions) ==
  LET itemLabels == mapToLowerCase(item.dietary_labels) IN
  \E k \in 1..Len(restrictions) : meetsRestriction(itemLabels, restrictions[k])

meetsAllRestrictions(item, restrictions) ==
  LET itemLabels == mapToLowerCase(item.dietary_labels) IN
  \A k \in 1..Len(restrictions) : meetsRestriction(itemLabels, restrictions[k])

\* The callback of filter without its last test.
keepItemIgnoringAvailable(item, allergens, restrictions) ==
  IF Len(allergens) > 0 /\ hasAllergen(item, allergens) THEN FALSE
  ELSE IF Len(restrictions) > 0 /\ ~meetsAllRestrictions(item, restrictions)
       THEN FALSE
  ELSE TRUE

\* The callback of items.filter.
keepItem(item, allergens, restrictions) ==
  IF Len(allergens) > 0 /\ hasAllergen(item, allergens) THEN FALSE
  ELSE IF Len(restrictions) > 0 /\ ~meetsAllRestrictions(item, restrictions)
       THEN FALSE
  ELSE IF item.available = FALSE THEN FALSE
  ELSE TRUE

\* Array.prototype.filter: the elements the callback keeps, in order.
RECURSIVE filterFrom(_, _, _, _, _)
filterFrom(items, i, allergens, restrictions, acc) ==
  IF i > Len(items) THEN acc
  ELSE filterFrom(items, i + 1, allergens, restrictions,
                  IF keepItem(items[i], allergens, restrictions)
                  THEN Append(acc, items[i]) ELSE acc)

filterItemsByPreferences(items, allergens, restrictions) ==
  filterFrom(items, 1, allergens, restrictions, <<>>)

\* ------------------------------------------------------------------------
\* scoreMealAgainstTaste, for attributes whose fields are arrays (on the
\* others it throws: scoreMealAgainstTasteThrows)
\* ------------------------------------------------------------------------

\* `${name} ${description} ${ingredients.join(' ')}`.toLowerCase()
itemTextOf(mealItem) ==
  toLowerCase(mealItem.name \o <<" ">> \o mealItem.description \o <<" ">>
              \o Join(mealItem.ingredients))

\* tags.forEach(tag => { if (text.includes(tag)) score += points; })
RECURSIVE addPerMatch(_, _, _, _, _)
addPerMatch(score, text, tags, points, i) ==
  IF i > Len(tags) THEN score
  ELSE addPerMatch(IF includes(text, tags[i]) THEN score + points ELSE score,
                   text, tags, points, i + 1)

\* The boost for health keywords, given only when a health goal was asked.
healthBoost(itemText, healthGoals) ==
  IF Len(healthGoals) > 0
  THEN (IF includes(itemText, LOW_FAT) \/ includes(itemText, HEALTHY)
        THEN 5 ELSE 0)
       + (IF includes(itemText, HIGH_PROTEIN) THEN 5 ELSE 0)
       + (IF includes(itemText, LOW_SODIUM) THEN 5 ELSE 0)
  ELSE 0

\* The additive blocks with 30 given once when any cuisine is found.
positiveScoreCuisineOnce(itemText, tasteAttributes) ==
  LET cuisines == IF \E i \in 1..Len(tasteAttributes.cuisines.a) :
                       includes(itemText, tasteAttributes.cuisines.a[i])
                  THEN 30 ELSE 0
      types    == addPerMatch(cuisines, itemText, tasteAttributes.foodTypes.a, 25, 1)
      preps    == addPerMatch(types, itemText, tasteAttributes.prepMethods.a, 15, 1)
      ingrs    == addPerMatch(preps, itemText, tasteAttributes.ingredients.a, 10, 1)
  IN ingrs + healthBoost(itemText, tasteAttributes.healthGoals.a)

\* The score after the five additive blocks.
positiveScore(itemText, tasteAttributes) ==
  LET cuisines == addPerMatch(0, itemText, tasteAttributes.cuisines.a, 30, 1)
      types    == addPerMatch(cuisines, itemText, tasteAttributes.foodTypes.a, 25, 1)
      preps    == addPerMatch(types, itemText, tasteAttributes.prepMethods.a, 15, 1)
      ingrs    == addPerMatch(preps, itemText, tasteAttributes.ingredients.a, 10, 1)
  IN ingrs + healthBoost(itemText, tasteAttributes.healthGoals.a)

\* allergies.forEach(a => { if (text.includes(a.toLowerCase())) score -= 1000 })
RECURSIVE allergenPenalty(_, _, _, _)
allergenPenalty(score, itemText, userAllergies, i) ==
  IF i > Len(userAllergies) THEN score
  ELSE allergenPenalty(
         IF includes(itemText, toLowerCase(userAllergies[i]))
         THEN score - 1000 ELSE score,
         itemText, userAllergies, i + 1)

\* dietaryRestrictions.some(d => itemText.includes(d.toLowerCase()))
hasDietary(itemText, restrictions) ==
  \E k \in 1..Len(restrictions) : includes(itemText, toLowerCase(restrictions[k]))

\* The unmet-dietary penalty is applied.
dietaryPenaltyApplies(itemText, restrictions) ==
  Len(restrictions) > 0 /\ ~hasDietary(itemText, restrictions)

\* The score before Math.max.
rawScore(mealItem, tasteAttributes, userPreferences) ==
  LET itemText == itemTextOf(mealItem)
      positive == positiveScore(itemText, tasteAttributes)
      afterAllergens ==
        allergenPenalty(positive, itemText, userPreferences.allergies, 1)
  IN IF dietaryPenaltyApplies(itemText, userPreferences.dietaryRestrictions)
     THEN afterAllergens - 100 ELSE afterAllergens

\* The scorer returning the score as it stands, without Math.max.
scoreMealAgainstTasteNoFloor(mealItem, tasteAttributes, userPreferences) ==
  rawScore(mealItem, tasteAttributes, userPreferences)

scoreMealAgainstTaste(mealItem, tasteAttributes, userPreferences) ==
  LET score == rawScore(mealItem, tasteAttributes, userPreferences) IN
  IF score > 0 THEN score ELSE 0

\* ------------------------------------------------------------------------
\* generateMatchReasons, for attributes whose fields are arrays (on the
\* others it throws: generateMatchReasonsThrows)
\* ------------------------------------------------------------------------

\* A reason is its kind and the text put into its template: the first
\* requested preparation method, or the joined dietary labels.
CuisineReason     == [kind |-> "cuisine",     detail |-> <<>>]
FoodTypeReason    == [kind |-> "foodType",    detail |-> <<>>]
IngredientsReason == [kind |-> "ingredients", detail |-> <<>>]
PrepReason(prep)  == [kind |-> "prep",        detail |-> prep]
DietaryReason(labels) == [kind |-> "dietary", detail |-> labels]

\* arr.join(', ')
RECURSIVE joinComma(_)
joinComma(arr) ==
  IF Len(arr) = 0 THEN <<>>
  ELSE IF Len(arr) = 1 THEN arr[1]
       ELSE arr[1] \o <<",", " ">> \o joinComma(Tail(arr))

\* tags.some(t => itemText.includes(t))
someIncluded(itemText, tags) ==
  \E i \in 1..Len(tags) : includes(itemText, tags[i])

\* The reasons pushed, before slice.
pushedReasons(meal, tasteAttributes) ==
  LET itemText == toLowerCase(meal.name \o <<" ">> \o meal.description)
      r1 == IF someIncluded(itemText, tasteAttributes.cuisines.a)
            THEN <<CuisineReason>> ELSE <<>>
      r2 == IF someIncluded(itemText, tasteAttributes.foodTypes.a)
            THEN Append(r1, FoodTypeReason) ELSE r1
      r3 == IF someIncluded(itemText, tasteAttributes.ingredients.a)
            THEN Append(r2, IngredientsReason) ELSE r2
      r4 == IF someIncluded(itemText, tasteAttributes.prepMethods.a)
            THEN Append(r3, PrepReason(tasteAttributes.prepMethods.a[1]))
            ELSE r3
  IN IF Len(meal.dietary_labels) > 0
     THEN Append(r4, DietaryReason(joinComma(meal.dietary_labels)))
     ELSE r4

\* The reasons returned whole, without slice.
generateMatchReasonsUncut(meal, tasteAttributes) ==
  pushedReasons(meal, tasteAttributes)

generateMatchReasons(meal, tasteAttributes) ==
  LET reasons == pushedReasons(meal, tasteAttributes) IN
  SubSeq(reasons, 1, IF Len(reasons) < 3 THEN Len(reasons) ELSE 3)

\* ------------------------------------------------------------------------
\* The search-by-taste handler: one restaurant's meals and match score
\* ------------------------------------------------------------------------

\* The handler keeps the five best meals of a restaurant.
TOP_MEALS == 5

\* filtered.map(item => ({...item, score: scoreMealAgainstTaste(...),
\* matchReasons: generateMatchReasons(item, tasteAttributes)}))
scoreAll(items, tasteAttributes, userPreferences) ==
  [i \in 1..Len(items) |->
     [item |-> items[i],
      score |-> scoreMealAgainstTaste(items[i], tasteAttributes, userPreferences),
      matchReasons |-> generateMatchReasons(items[i], tasteAttributes)]]

\* One step of a stable sort by (a, b) => b.score - a.score: m goes behind
\* every meal whose score is not smaller.
RECURSIVE insertByScore(_, _)
insertByScore(sorted, m) ==
  IF Len(sorted) = 0 THEN <<m>>
  ELSE IF Head(sorted).score >= m.score
       THEN <<Head(sorted)>> \o insertByScore(Tail(sorted), m)
       ELSE <<m>> \o sorted

\* Array.prototype.sort, which is stable.
RECURSIVE sortByScore(_, _, _)
sortByScore(ms, i, acc) ==
  IF i > Len(ms) THEN acc
  ELSE sortByScore(ms, i + 1, insertByScore(acc, ms[i]))

\* arr.slice(0, n)
sliceTo(arr, n) == SubSeq(arr, 1, IF Len(arr) < n THEN Len(arr) ELSE n)

\* The first five taken before the sort.
rankMealsSliceFirst(items, tasteAttributes, userPreferences) ==
  sortByScore(sliceTo(scoreAll(items, tasteAttributes, userPreferences),
                      TOP_MEALS), 1, <<>>)

\* The meals of a restaurant: scored, sorted, the first five.
rankMeals(items, tasteAttributes, userPreferences) ==
  sliceTo(sortByScore(scoreAll(items, tasteAttributes, userPreferences), 1, <<>>),
          TOP_MEALS)

\* `${restaurant.name} ${(restaurant.dietaryOptions || []).join(' ')}`
\*   .toLowerCase()
restaurantTextOf(r) ==
  toLowerCase(r.name \o <<" ">>
              \o Join(IF r.dietaryOptions.t = "array"
                      THEN r.dietaryOptions.a ELSE <<>>))

\* The boost from a rating of 4 on.
ratingBoostFromFour(r) ==
  r.rating.t = "number" /\ r.rating.n # 0 /\ r.rating.n >= 40

\* restaurant.rating && restaurant.rating > 4, the rating in tenths.
ratingBoost(r) ==
  r.rating.t = "number" /\ r.rating.n # 0 /\ r.rating.n > 40

\* Math.round of a number given in tenths.
MathRound(tenths) == (tenths + 5) \div 10

\* The score is kept in tenths up to Math.round, as topMealScore / 10 is
\* not a whole number.
calculateRestaurantMatchScore(r, tasteAttributes, ms) ==
  LET restaurantText == restaurantTextOf(r)
      cuisines ==
        10 * addPerMatch(0, restaurantText, tasteAttributes.cuisines.a, 30, 1)
      topMeal ==
        IF Len(ms) > 0
        THEN cuisines + (IF ms[1].score < 400 THEN ms[1].score ELSE 400)
        ELSE cuisines
      dietary ==
        topMeal
        + 10 * addPerMatch(0, restaurantText, tasteAttributes.dietary.a, 20, 1)
      rating == IF ratingBoost(r) THEN dietary + 100 ELSE dietary
  IN MathRound(rating)

\* The request arrived, parseTasteQuery returned by the keyword parser and
\* getMenuItems resolved.
MenuInit ==
  /\ query \in SearchQueries
  /\ useGemma = FALSE
  /\ pc = "returned"
  /\ reply = NoReply
  /\ result = parseWithKeywords(query)
  /\ requests = 0
  /\ allergies \in AllergyLists
  /\ dietaryRestrictions \in DietaryLists
  /\ menuItems \in Menus
  /\ hpc = "menu"
  /\ filtered = <<>>
  /\ meals = <<>>
  /\ restaurant = NoRestaurant
  /\ matchScore = 0
  /\ SearchIdle
  /\ UsersIdle

userPreferences ==
  [allergies |-> allergies, dietaryRestrictions |-> dietaryRestrictions]

\* mealmeService.filterItemsByPreferences(menuItems, allergies,
\* dietaryRestrictions)
FilterMenu ==
  /\ hpc = "menu"
  /\ filtered' = filterItemsByPreferences(menuItems, allergies, dietaryRestrictions)
  /\ hpc' = "filtered"
  /\ UNCHANGED <<allergies, dietaryRestrictions, menuItems, meals, restaurant,
                 matchScore>>
  /\ UNCHANGED <<parserVars, searchVars, userVars>>

\* filtered.map(...).sort(...).slice(0, 5)
RankMeals ==
  /\ hpc = "filtered"
  /\ meals' = rankMeals(filtered, result, userPreferences)
  /\ hpc' = "ranked"
  /\ UNCHANGED <<allergies, dietaryRestrictions, menuItems, filtered,
                 restaurant, matchScore>>
  /\ UNCHANGED <<parserVars, searchVars, userVars>>

\* calculateRestaurantMatchScore(restaurant, tasteAttributes, meals)
MatchRestaurant ==
  /\ hpc = "ranked"
  /\ \E r \in Restaurants :
       /\ restaurant' = r
       /\ matchScore' = calculateRestaurantMatchScore(r, result, meals)
  /\ hpc' = "done"
  /\ UNCHANGED <<allergies, dietaryRestrictions, menuItems, filtered, meals>>
  /\ UNCHANGED <<parserVars, searchVars, userVars>>

\* scoreMealAgainstTaste is exported: a caller scores the menu's items as
\* they are, without the filter.
ScoreDirect ==
  /\ hpc = "menu"
  /\ meals' = scoreAll(menuItems, result, userPreferences)
  /\ hpc' = "direct"
  /\ UNCHANGED <<allergies, dietaryRestrictions, menuItems, filtered,
                 restaurant, matchScore>>
  /\ UNCHANGED <<parserVars, searchVars, userVars>>

MenuNext == FilterMenu \/ RankMeals \/ MatchRestaurant \/ ScoreDirect

MenuSpec == MenuInit /\ [][MenuNext]_vars

\* ------------------------------------------------------------------------
\* The search-by-taste handler: the per-restaurant tasks under Promise.all
\* and the ranking of the restaurants
\* ------------------------------------------------------------------------

\* The longest list of restaurants found, the long list apart.
MaxRestaurants == 2

\* restaurants.slice(0, 10): the restaurants whose menus are read.
PROCESSED_RESTAURANTS == 10

\* The restaurants a response holds at most.
RETURNED_RESTAURANTS == 10

\* A restaurant found, whether it carries quote ids, and how the retrieval
\* of its menu ends: with items, or with an error of the menu service.
Candidate(r, quote, ok, items) ==
  [restaurant |-> r, hasQuote |-> quote, menu |-> [ok |-> ok, items |-> items]]

MexicanGrillMenu  == Candidate(MexicanGrill, TRUE, TRUE, <<SpicyVeggieTaco, SoyTacos>>)
ThaiKitchenMenu   == Candidate(ThaiAsianKitchen, TRUE, TRUE, <<VeganSalad, ThaiNoodles>>)
ThaiKitchenDown   == Candidate(ThaiAsianKitchen, TRUE, FALSE, <<>>)
DinerNoQuote      == Candidate(Diner, FALSE, FALSE, <<>>)
DinerMenu         == Candidate(Diner, TRUE, TRUE, <<ThaiNoodles>>)
MexicanGrillEmpty == Candidate(MexicanGrill, TRUE, TRUE, <<>>)

Candidates ==
  {MexicanGrillMenu, ThaiKitchenMenu, ThaiKitchenDown, DinerNoQuote, DinerMenu,
   MexicanGrillEmpty}

\* Eleven restaurants found: the eleventh is beyond the ten processed.
LongList ==
  [i \in 1..11 |-> IF i = 9 THEN MexicanGrillEmpty
                   ELSE IF i = 10 THEN ThaiKitchenDown
                   ELSE IF i = 11 THEN ThaiKitchenMenu ELSE DinerNoQuote]

FoundLists ==
  UNION { [1..n -> Candidates] : n \in 0..MaxRestaurants } \cup {LongList}

\* getMenuItems: the items, or [] when the request fails (the error is
\* caught inside).
getMenuItems(c) == IF c.menu.ok THEN c.menu.items ELSE <<>>

\* The try block of a task: meals stays [] when there are no quote ids and
\* when scoring throws, which the block catches.
mealsOfTask(c, tasteAttributes, prefs) ==
  IF ~c.hasQuote THEN <<>>
  ELSE LET kept == filterItemsByPreferences(getMenuItems(c), prefs.allergies,
                                            prefs.dietaryRestrictions)
       IN IF Len(kept) > 0 /\ (\/ scoreMealAgainstTasteThrows(tasteAttributes)
                               \/ generateMatchReasonsThrows(tasteAttributes))
          THEN <<>>
          ELSE rankMeals(kept, tasteAttributes, prefs)

\* A task not settled yet.
Pending ==
  [settled |-> FALSE, threw |-> FALSE, restaurant |-> NoRestaurant,
   matchScore |-> 0, meals |-> <<>>]

\* What a task settles with: { ...restaurant, matchScore, meals }, or the
\* rejection when calculateRestaurantMatchScore, outside the try, throws.
restaurantTask(c, tasteAttributes, prefs) ==
  LET ms == mealsOfTask(c, tasteAttributes, prefs) IN
  IF calculateRestaurantMatchScoreThrows(tasteAttributes)
  THEN [settled |-> TRUE, threw |-> TRUE, restaurant |-> c.restaurant,
        matchScore |-> 0, meals |-> <<>>]
  ELSE [settled |-> TRUE, threw |-> FALSE, restaurant |-> c.restaurant,
        matchScore |-> calculateRestaurantMatchScore(c.restaurant, tasteAttributes, ms),
        meals |-> ms]

\* Results kept in the order the tasks settle.
settleInCompletionOrder(ss, i, value) ==
  [ss EXCEPT ![Min({k \in 1..Len(ss) : ~ss[k].settled})] = value]

\* Promise.all keeps each result at the place of its promise.
settle(ss, i, value) == [ss EXCEPT ![i] = value]

\* .filter((r) => r.matchScore > 0 || r.meals.length > 0)
keepRestaurant(r) == r.matchScore > 0 \/ Len(r.meals) > 0

\* One step of the stable sort by (a, b) => b.matchScore - a.matchScore.
RECURSIVE insertByMatchScore(_, _)
insertByMatchScore(sorted, r) ==
  IF Len(sorted) = 0 THEN <<r>>
  ELSE IF Head(sorted).matchScore >= r.matchScore
       THEN <<Head(sorted)>> \o insertByMatchScore(Tail(sorted), r)
       ELSE <<r>> \o sorted

RECURSIVE sortByMatchScore(_, _, _)
sortByMatchScore(rs, i, acc) ==
  IF i > Len(rs) THEN acc
  ELSE sortByMatchScore(rs, i + 1, insertByMatchScore(acc, rs[i]))

\* The entry of a restaurant in the response.
entryOf(slot) ==
  [restaurant |-> slot.restaurant, matchScore |-> slot.matchScore,
   meals |-> slot.meals]

\* The restaurants kept, in the order of the tasks.
topRestaurantsUnsorted(ss) ==
  sliceTo(SelectSeq([i \in 1..Len(ss) |-> entryOf(ss[i])], keepRestaurant),
          RETURNED_RESTAURANTS)

\* restaurantsWithMeals.filter(...).sort(...).slice(0, 10)
topRestaurants(ss) ==
  sliceTo(sortByMatchScore(
            SelectSeq([i \in 1..Len(ss) |-> entryOf(ss[i])], keepRestaurant),
            1, <<>>),
          RETURNED_RESTAURANTS)

\* The taste queries of the searches over several restaurants.
TasteQueries == {SpicyVegetarianTacos, ThaiCurryNoodles}

\* The request arrived, parseTasteQuery returned (by the keyword parser, or
\* with the object of a model that answered '{}') and the restaurants were
\* found.
SearchInit ==
  /\ query \in TasteQueries
  /\ useGemma \in BOOLEAN
  /\ pc = "returned"
  /\ reply = IF useGemma THEN [kind |-> "text", text |-> <<LBRACE, RBRACE>>]
             ELSE NoReply
  /\ result = IF useGemma THEN EmptyObject ELSE parseWithKeywords(query)
  /\ requests = IF useGemma THEN 1 ELSE 0
  /\ allergies \in {<<>>, <<SOY>>}
  /\ dietaryRestrictions \in {<<>>, <<VEGETARIAN>>}
  /\ menuItems = <<>>
  /\ hpc = "idle"
  /\ filtered = <<>>
  /\ meals = <<>>
  /\ restaurant = NoRestaurant
  /\ matchScore = 0
  /\ found \in FoundLists
  /\ slots = <<>>
  /\ completionOrder = <<>>
  /\ spc = "found"
  /\ response = NoResponse
  /\ UsersIdle

\* restaurants.slice(0, 10).map(async ...): every task runs up to its await
\* of getMenuItems; a task without quote ids has no await and settles here.
StartTasks ==
  /\ spc = "found"
  /\ slots' =
       [i \in 1..(IF Len(found) < PROCESSED_RESTAURANTS
                  THEN Len(found) ELSE PROCESSED_RESTAURANTS) |->
          IF found[i].hasQuote THEN Pending
          ELSE restaurantTask(found[i], result, userPreferences)]
  /\ spc' = "running"
  /\ UNCHANGED <<found, completionOrder, response>>
  /\ UNCHANGED <<parserVars, menuVars, userVars>>

\* The menu request of task i ends and the task runs to its end.  Tasks
\* still waiting when the handler has answered go on all the same.
MenuSettles(i) ==
  /\ spc \in {"running", "responded"}
  /\ found[i].hasQuote
  /\ \A k \in 1..Len(completionOrder) : completionOrder[k] # i
  /\ slots' = settle(slots, i, restaurantTask(found[i], result, userPreferences))
  /\ completionOrder' = Append(completionOrder, i)
  /\ UNCHANGED <<found, spc, response>>
  /\ UNCHANGED <<parserVars, menuVars, userVars>>

\* Promise.all resolves when every task has: rank and answer.
Respond ==
  /\ spc = "running"
  /\ \A i \in 1..Len(slots) : slots[i].settled /\ ~slots[i].threw
  /\ response' = [status |-> 200, restaurants |-> topRestaurants(slots)]
  /\ spc' = "responded"
  /\ UNCHANGED <<found, slots, completionOrder>>
  /\ UNCHANGED <<parserVars, menuVars, userVars>>

\* Promise.all rejects with the first rejection: the catch answers 500.
RespondError ==
  /\ spc = "running"
  /\ \E i \in 1..Len(slots) : slots[i].settled /\ slots[i].threw
  /\ response' = [status |-> 500, restaurants |-> <<>>]
  /\ spc' = "responded"
  /\ UNCHANGED <<found, slots, completionOrder>>
  /\ UNCHANGED <<parserVars, menuVars, userVars>>

SearchNext ==
  \/ StartTasks
  \/ \E i \in 1..Len(slots) : MenuSettles(i)
  \/ Respond
  \/ RespondError

SearchSpec == SearchInit /\ [][SearchNext]_vars

\* ------------------------------------------------------------------------
\* POST /api/users/create over the users collection
\* ------------------------------------------------------------------------

\* The most create requests in flight together.
MaxCreates == 2

UserIds == {"u1", "u2"}

Emails == {"a@umenu.test", "b@umenu.test"}

\* null: findOne found no document.
NoUser == [userId |-> "", email |-> ""]

\* A request that has arrived: req.body, and no user and no response yet.
NewRequest(userId, email) ==
  [userId |-> userId, email |-> email, pc |-> "start", user |-> NoUser,
   status |-> 0]

\* User.findOne({ userId }): a document of that userId, or null.
findOne(userId) ==
  IF \E u \in users : u.userId = userId
  THEN CHOOSE u \in users : u.userId = userId
  ELSE NoUser

\* The collection is empty or holds a user, and the requests have arrived.
UserInit ==
  /\ query = <<>>
  /\ useGemma = FALSE
  /\ pc = "start"
  /\ reply = NoReply
  /\ result = EmptyObject
  /\ requests = 0
  /\ MenuIdle
  /\ SearchIdle
  /\ users \in {{}, {[userId |-> "u1", email |-> "a@umenu.test"]}}
  /\ \E n \in 1..MaxCreates :
       creates \in [1..n -> {NewRequest(u, e) : u \in UserIds, e \in Emails}]

\* let user = await User.findOne({ userId })
FindOne(i) ==
  /\ creates[i].pc = "start"
  /\ creates' = [creates EXCEPT ![i].user = findOne(creates[i].userId),
                                ![i].pc = "afterFind"]
  /\ UNCHANGED users
  /\ UNCHANGED <<parserVars, menuVars, searchVars>>

\* The user exists: res.json({ success: true, user }).
RespondExisting(i) ==
  /\ creates[i].pc = "afterFind"
  /\ creates[i].user # NoUser
  /\ creates' = [creates EXCEPT ![i].status = 200, ![i].pc = "done"]
  /\ UNCHANGED users
  /\ UNCHANGED <<parserVars, menuVars, searchVars>>

\* new User({ userId, email }); await user.save() inserts the document,
\* then res.json({ success: true, user }).
Save(i) ==
  /\ creates[i].pc = "afterFind"
  /\ creates[i].user = NoUser
  /\ \A u \in users : u.userId # creates[i].userId
  /\ users' = users \cup {[userId |-> creates[i].userId, email |-> creates[i].email]}
  /\ creates' = [creates EXCEPT
                   ![i].user = [userId |-> creates[i].userId,
                                email |-> creates[i].email],
                   ![i].status = 200,
                   ![i].pc = "done"]
  /\ UNCHANGED <<parserVars, menuVars, searchVars>>

\* user.save() is rejected by the unique index on userId (duplicate key):
\* the catch answers 500.
SaveRejected(i) ==
  /\ creates[i].pc = "afterFind"
  /\ creates[i].user = NoUser
  /\ \E u \in users : u.userId = creates[i].userId
  /\ creates' = [creates EXCEPT ![i].status = 500, ![i].pc = "done"]
  /\ UNCHANGED users
  /\ UNCHANGED <<parserVars, menuVars, searchVars>>

UserNext ==
  \/ \E i \in 1..Len(creates) : FindOne(i)
  \/ \E i \in 1..Len(creates) : RespondExisting(i)
  \/ \E i \in 1..Len(creates) : Save(i)
  \/ \E i \in 1..Len(creates) : SaveRejected(i)

UserSpec == UserInit /\ [][UserNext]_vars


\* ------------------------------------------------------------------------
\* Vocabulary of the filter's and the scorers' properties
\* ------------------------------------------------------------------------

\* The filter has returned.
Filtered == hpc \in {"filtered", "ranked", "done"}

\* out is a subsequence of in: its elements are elements of in, taken at
\* strictly increasing places.
IsSubsequence(out, in) ==
  /\ Len(out) <= Len(in)
  /\ \E f \in [1..Len(out) -> 1..Len(in)] :
       /\ \A k \in 1..Len(out) : out[k] = in[f[k]]
       /\ \A k \in 1..(Len(out) - 1) : f[k] < f[k + 1]

\* The item declares one of the user's allergens, whole tags compared
\* without regard to case.
DeclaresAllergen(item, userAllergens) ==
  \E i \in 1..Len(item.allergens) : \E k \in 1..Len(userAllergens) :
    toLowerCase(item.allergens[i]) = toLowerCase(userAllergens[k])

\* The item's dietary labels, in lower case, as a set.
LabelsOf(item) ==
  {toLowerCase(item.dietary_labels[i]) : i \in 1..Len(item.dietary_labels)}

\* The required tag is satisfied by the item: directly or by implication.
Satisfies(item, tag) ==
  LET t == toLowerCase(tag) IN
  \/ t \in LabelsOf(item)
  \/ t = VEGETARIAN /\ VEGAN \in LabelsOf(item)
  \/ t = PESCETARIAN /\ (VEGAN \in LabelsOf(item) \/ VEGETARIAN \in LabelsOf(item))

\* The item at place i of the menu is at some place of the filter's output.
Passes(i) == InSeq(menuItems[i], filtered)

\* The scorer's penalties on an item.
AllergenPenalised(item) ==
  \E k \in 1..Len(allergies) :
    OccursIn(toLowerCase(allergies[k]), itemTextOf(item))

DietaryPenalised(item) == dietaryPenaltyApplies(itemTextOf(item), dietaryRestrictions)

\* The number of the tags that occur in the text.
CountOccurring(tags, text) ==
  Cardinality({i \in 1..Len(tags) : OccursIn(tags[i], text)})

\* ------------------------------------------------------------------------
\* C11: the filter returns a subsequence of the menu (only its elements, in
\* their order, none twice or altered) and no item whose available flag is
\* false.
\* ------------------------------------------------------------------------
C11_FilterSubsequence ==
  Filtered =>
    /\ IsSubsequence(filtered, menuItems)
    /\ \A k \in 1..Len(filtered) : filtered[k].available # FALSE

\* The unavailable item was dropped, the available one behind it kept.
C11_Witness ==
  /\ hpc = "filtered"
  /\ menuItems = <<MexicanTacos, SpicyVeggieTaco>>
  /\ allergies = <<>>
  /\ dietaryRestrictions = <<>>
  /\ filtered = <<SpicyVeggieTaco>>

\* ------------------------------------------------------------------------
\* C12: an item that declares one of the user's allergens (whole tags, case
\* ignored) is never in the filter's output, whatever its labels, its
\* availability and the required diets.
\* ------------------------------------------------------------------------
C12_AllergenExcluded ==
  Filtered =>
    \A i \in 1..Len(menuItems) :
      DeclaresAllergen(menuItems[i], allergies) => ~Passes(i)

\* 'Soy' against 'soy' and 'peanuts' against 'Peanuts': both items dropped
\* though the first meets the required diet.
C12_Witness ==
  /\ hpc = "filtered"
  /\ menuItems = <<SoyTacos, ThaiNoodles>>
  /\ Len(allergies) = 2
  /\ dietaryRestrictions = <<VEGAN>>
  /\ filtered = <<>>

\* ------------------------------------------------------------------------
\* C13: when diets are required, an available item that declares none of
\* the user's allergens passes the filter exactly when every required tag
\* is satisfied, directly or by implication.
\* ------------------------------------------------------------------------
C13_DietaryEvery ==
  (Filtered /\ Len(dietaryRestrictions) > 0) =>
    \A i \in 1..Len(menuItems) :
      (menuItems[i].available /\ ~DeclaresAllergen(menuItems[i], allergies)) =>
        (Passes(i) <=>
           \A k \in 1..Len(dietaryRestrictions) :
             Satisfies(menuItems[i], dietaryRestrictions[k]))

\* 'Vegan' and 'vegetarian' required: the vegetarian-only item meets one
\* tag and is dropped, the vegan item meets both and passes.
C13_Witness ==
  /\ hpc = "filtered"
  /\ menuItems = <<SpicyVeggieTaco, SoyTacos>>
  /\ allergies = <<>>
  /\ Len(dietaryRestrictions) = 2
  /\ filtered = <<SoyTacos>>

\* ------------------------------------------------------------------------
\* C14: an item labelled only vegan passes when vegetarian is required; an
\* item labelled only vegetarian does not pass when pescetarian is
\* required.  (The second half is not what filterItemsByPreferences does.)
\* ------------------------------------------------------------------------
OnlyLabel(item, label) ==
  Len(item.dietary_labels) > 0 /\ LabelsOf(item) = {label}

\* Available and free of the user's allergens: nothing but the diet decides.
Eligible(item) == item.available /\ ~DeclaresAllergen(item, allergies)

VeganPassesVegetarian ==
  (Filtered /\ dietaryRestrictions = <<VEGETARIAN>>) =>
    \A i \in 1..Len(menuItems) :
      (OnlyLabel(menuItems[i], VEGAN) /\ Eligible(menuItems[i])) => Passes(i)

C14_VegetarianFailsPescetarian ==
  /\ VeganPassesVegetarian
  /\ (Filtered /\ dietaryRestrictions = <<PESCETARIAN>>) =>
       \A i \in 1..Len(menuItems) :
         OnlyLabel(menuItems[i], VEGETARIAN) => ~Passes(i)

\* C14 as amended: an item labelled only vegan passes when vegetarian is
\* required, and an item labelled only vegetarian passes when pescetarian is
\* required, whether or not it also carries vegan.
C14_VegetarianPassesPescetarian ==
  /\ VeganPassesVegetarian
  /\ (Filtered /\ dietaryRestrictions = <<PESCETARIAN>>) =>
       \A i \in 1..Len(menuItems) :
         (OnlyLabel(menuItems[i], VEGETARIAN) /\ Eligible(menuItems[i]))
           => Passes(i)

\* Pescetarian required: the vegetarian-only item passed.
C14_Witness ==
  /\ hpc = "filtered"
  /\ dietaryRestrictions = <<PESCETARIAN>>
  /\ allergies = <<>>
  /\ menuItems = <<SpicyVeggieTaco>>
  /\ filtered = <<SpicyVeggieTaco>>

\* ------------------------------------------------------------------------
\* C15: the score of an item is never below 0, also when the penalties
\* take the sum below 0.
\* ------------------------------------------------------------------------
C15_ScoreFloor ==
  \A k \in 1..Len(meals) : meals[k].score >= 0

\* An item scored directly whose sum the penalties took below 0.
C15_Witness ==
  /\ hpc = "direct"
  /\ \E k \in 1..Len(meals) :
       /\ rawScore(meals[k].item, result, userPreferences) < 0
       /\ meals[k].score = 0

\* ------------------------------------------------------------------------
\* C16: 'Spicy Veggie Taco', scored against the attributes of 'spicy
\* vegetarian tacos' for a user with no allergens and no required diet,
\* gets at least 55 (30 for the cuisine, 25 for the food type).
\* ------------------------------------------------------------------------
C16_ScenarioScore ==
  (/\ hpc \in {"direct", "ranked"}
   /\ query = SpicyVegetarianTacos
   /\ allergies = <<>>
   /\ dietaryRestrictions = <<>>) =>
    \A k \in 1..Len(meals) :
      meals[k].item = SpicyVeggieTaco => meals[k].score >= 55

\* ------------------------------------------------------------------------
\* C17: an item that declares one of the user's allergens, scored directly
\* (the filter bypassed), gets 0 whatever else it matches.
\* ------------------------------------------------------------------------
C17_DeclaredAllergenScoresZero ==
  hpc = "direct" =>
    \A k \in 1..Len(meals) :
      DeclaresAllergen(meals[k].item, allergies) => meals[k].score = 0

\* ------------------------------------------------------------------------
\* C18: when diets are required, the scorer applies its unmet-diet penalty
\* to an item exactly when the filter excludes the item for an unmet diet.
\* ------------------------------------------------------------------------
C18_ScorerMatchesFilter ==
  (hpc = "direct" /\ Len(dietaryRestrictions) > 0) =>
    \A k \in 1..Len(meals) :
      DietaryPenalised(meals[k].item)
        <=> ~meetsAllRestrictions(meals[k].item, dietaryRestrictions)

\* ------------------------------------------------------------------------
\* C19: an item the scorer penalises (allergen or unmet diet) never scores
\* strictly higher than an item it does not penalise, so that penalised
\* items are last in the list sorted by score.
\* ------------------------------------------------------------------------
Penalised(item) == AllergenPenalised(item) \/ DietaryPenalised(item)

C19_PenaltiesDominate ==
  hpc = "ranked" =>
    \A i \in 1..Len(meals) : \A j \in 1..Len(meals) :
      (Penalised(meals[i].item) /\ ~Penalised(meals[j].item))
        => meals[i].score <= meals[j].score

\* ------------------------------------------------------------------------
\* C20: the restaurant's match score is the rounding of 30 for each
\* requested cuisine tag and 20 for each requested dietary tag that occurs
\* in the lower-cased 'name dietaryOptions' text, plus the least of a tenth
\* of the first meal's score and 40 when there are meals, plus 10 when the
\* rating is above 4; the first meal is a best-scored one and the result is
\* never negative.
\* ------------------------------------------------------------------------
\* The restaurant's text, written out.
RestaurantText ==
  toLowerCase(
    restaurant.name \o <<" ">>
    \o (IF restaurant.dietaryOptions.t = "array"
        THEN Join(restaurant.dietaryOptions.a) ELSE <<>>))

\* The sum before rounding, in tenths.
ExpectedTenths ==
  300 * CountOccurring(result.cuisines.a, RestaurantText)
  + 200 * CountOccurring(result.dietary.a, RestaurantText)
  + (IF Len(meals) > 0
     THEN (IF meals[1].score <= 400 THEN meals[1].score ELSE 400) ELSE 0)
  + (IF restaurant.rating.t = "number" /\ restaurant.rating.n > 40
     THEN 100 ELSE 0)

C20_MatchScoreFormula ==
  hpc = "done" =>
    /\ 10 * matchScore - 5 <= ExpectedTenths
    /\ ExpectedTenths < 10 * matchScore + 5
    /\ \A k \in 1..Len(meals) : meals[1].score >= meals[k].score
    /\ matchScore >= 0

\* The top meal is worth more than 400 (the cap of 40 binds), the cuisines
\* and the diet are found in the restaurant's text and the rating is 4.5.
C20_Witness ==
  /\ hpc = "done"
  /\ Len(meals) > 0
  /\ meals[1].score > 400
  /\ restaurant = MexicanGrill
  /\ matchScore = 80

\* The rating is exactly 4, no boost, and the tenth of the top meal's score
\* ends in a half, rounded up.
C20_WitnessHalf ==
  /\ hpc = "done"
  /\ restaurant = ThaiAsianKitchen
  /\ Len(meals) > 0
  /\ meals[1].score = 15
  /\ matchScore = 62

\* ------------------------------------------------------------------------
\* C21: the match reasons of a meal are the first three, in the order
\* cuisine, food type, ingredients, preparation, dietary labels, of the
\* reasons whose check holds, each at most once; the preparation reason
\* names the first requested preparation method; the dietary reason is
\* dropped when three earlier checks held.
\* ------------------------------------------------------------------------
\* The text the reasons are checked against: name and description.
ReasonText(item) == toLowerCase(item.name \o <<" ">> \o item.description)

SomeOccurs(tags, text) == \E i \in 1..Len(tags) : OccursIn(tags[i], text)

\* The check of a kind holds for the item.
CheckHolds(kind, item) ==
  CASE kind = "cuisine"     -> SomeOccurs(result.cuisines.a, ReasonText(item))
    [] kind = "foodType"    -> SomeOccurs(result.foodTypes.a, ReasonText(item))
    [] kind = "ingredients" -> SomeOccurs(result.ingredients.a, ReasonText(item))
    [] kind = "prep"        -> SomeOccurs(result.prepMethods.a, ReasonText(item))
    [] kind = "dietary"     -> Len(item.dietary_labels) > 0

ReasonOrder == <<"cuisine", "foodType", "ingredients", "prep", "dietary">>

\* The number of checks that hold among the first n of the order.
HeldAmongFirst(n, item) ==
  Cardinality({j \in 1..n : CheckHolds(ReasonOrder[j], item)})

C21_MatchReasons ==
  \A k \in 1..Len(meals) :
    LET item == meals[k].item
        rs   == meals[k].matchReasons
    IN /\ Len(rs) <= 3
       /\ Len(rs) = (IF HeldAmongFirst(5, item) < 3
                     THEN HeldAmongFirst(5, item) ELSE 3)
       \* the m-th reason is of the m-th check that holds
       /\ \A m \in 1..Len(rs) :
            \E j \in 1..5 :
              /\ CheckHolds(ReasonOrder[j], item)
              /\ HeldAmongFirst(j, item) = m
              /\ rs[m].kind = ReasonOrder[j]
       /\ \A m \in 1..Len(rs) :
            rs[m].kind = "prep" => rs[m].detail = result.prepMethods.a[1]
       /\ HeldAmongFirst(4, item) >= 3 =>
            \A m \in 1..Len(rs) : rs[m].kind # "dietary"

\* Four checks hold for the platter: cuisine, food type, preparation and
\* dietary labels.  The preparation reason names 'grilled', the first method
\* asked for, which the platter's text does not hold; the dietary reason is
\* dropped.
C21_Witness ==
  /\ hpc = "ranked"
  /\ query = RichQuery
  /\ \E k \in 1..Len(meals) :
       /\ meals[k].item = WorldPlatter
       /\ meals[k].matchReasons =
            <<CuisineReason, FoodTypeReason,
              PrepReason(<<"g","r","i","l","l","e","d">>)>>

\* ------------------------------------------------------------------------
\* C24: the score of an item is max(0, 30 for each requested cuisine tag,
\* 25 for each food-type tag, 15 for each preparation tag and 10 for each
\* ingredient token (a token asked twice counts twice) that occurs in the
\* lower-cased text 'name description ingredients', plus the health bonus,
\* minus 1000 for each user allergen that occurs in the text, minus 100 when
\* diets are required and none of them occurs in the text).
\* ------------------------------------------------------------------------
\* The item's text, written out.
ItemText(item) ==
  toLowerCase(item.name \o <<" ">> \o item.description \o <<" ">>
              \o Join(item.ingredients))

\* The health bonus as the scorer gives it: three steps of 5, for 'low fat'
\* or 'healthy', for 'high protein', for 'low sodium', and only when some
\* health goal was asked.
BonusGiven(text) ==
  IF Len(result.healthGoals.a) = 0 THEN 0
  ELSE 5 * Cardinality(
             {n \in 1..3 :
                \/ n = 1 /\ (OccursIn(LOW_FAT, text) \/ OccursIn(HEALTHY, text))
                \/ n = 2 /\ OccursIn(HIGH_PROTEIN, text)
                \/ n = 3 /\ OccursIn(LOW_SODIUM, text)})

\* The sum of the claim for a given health bonus.
ExpectedScore(item, bonus) ==
  LET text == ItemText(item)
      sum  ==
        30 * CountOccurring(result.cuisines.a, text)
        + 25 * CountOccurring(result.foodTypes.a, text)
        + 15 * CountOccurring(result.prepMethods.a, text)
        + 10 * CountOccurring(result.ingredients.a, text)
        + bonus
        - 1000 * CountOccurring(mapToLowerCase(allergies), text)
        - (IF Len(dietaryRestrictions) > 0
              /\ CountOccurring(mapToLowerCase(dietaryRestrictions), text) = 0
           THEN 100 ELSE 0)
  IN IF sum > 0 THEN sum ELSE 0

C24_ScoreFormula ==
  \A k \in 1..Len(meals) :
    meals[k].score = ExpectedScore(meals[k].item, BonusGiven(ItemText(meals[k].item)))

\* 'tofu tofu tacos': the food type and the ingredient token twice, 45.
C24_Witness ==
  /\ hpc = "direct"
  /\ query = TofuTofuTacos
  /\ allergies = <<>>
  /\ dietaryRestrictions = <<>>
  /\ \E k \in 1..Len(meals) :
       meals[k].item = SoyTacos /\ meals[k].score = 45

\* ------------------------------------------------------------------------
\* C25: each of 'low fat', 'healthy', 'high protein' and 'low sodium' that
\* the item text holds adds 5 on its own (20 for all four), whichever health
\* goal was asked.
\* ------------------------------------------------------------------------
HealthKeywords == <<LOW_FAT, HEALTHY, HIGH_PROTEIN, LOW_SODIUM>>

C25_FiveForEachKeyword ==
  Len(result.healthGoals.a) > 0 =>
    \A k \in 1..Len(meals) :
      meals[k].score =
        ExpectedScore(meals[k].item,
                      5 * CountOccurring(HealthKeywords, ItemText(meals[k].item)))

\* ------------------------------------------------------------------------
\* C26: a restaurant's meals are at most 5, sorted by score from the
\* highest, all among the items the filter passed (none more often than the
\* filter passed it), and no passed item left out scores strictly higher
\* than a returned one.
\* ------------------------------------------------------------------------
Ranked == hpc \in {"ranked", "done"}

\* How often x is among the items of ms.
TimesIn(x, items) == Cardinality({i \in 1..Len(items) : items[i] = x})

MealItems == [k \in 1..Len(meals) |-> meals[k].item]

C26_TopFive ==
  Ranked =>
    /\ Len(meals) <= 5
    /\ \A k \in 1..(Len(meals) - 1) : meals[k].score >= meals[k + 1].score
    /\ \A k \in 1..Len(meals) :
         /\ TimesIn(meals[k].item, filtered) >= TimesIn(meals[k].item, MealItems)
         /\ TimesIn(meals[k].item, filtered) > 0
    /\ \A j \in 1..Len(filtered) :
         TimesIn(filtered[j], filtered) > TimesIn(filtered[j], MealItems) =>
           \A k \in 1..Len(meals) :
             scoreMealAgainstTaste(filtered[j], result, userPreferences)
               <= meals[k].score

\* Seven of the long menu's items pass; the two that score sit last on the
\* menu and lead the five meals.
C26_Witness ==
  /\ hpc = "ranked"
  /\ menuItems = LongMenu
  /\ query = ThaiCurryNoodles
  /\ Len(filtered) = 7
  /\ Len(meals) = 5
  /\ meals[1].item = WorldPlatter
  /\ meals[2].item = ThaiNoodles
  /\ meals[3].score = 0

\* ------------------------------------------------------------------------
\* C27: a call of parseTasteQuery sends at most one request to the
\* text-generation service (no retry before the fallback) and none when the
\* flag is off.
\* ------------------------------------------------------------------------
C27_AtMostOneRequest ==
  /\ requests <= 1
  /\ ~useGemma => requests = 0

\* The one request failed and the keyword parser answered; no second
\* request was sent.
C27_Witness ==
  /\ pc = "returned"
  /\ useGemma
  /\ reply.kind = "error"
  /\ requests = 1
  /\ result.confidence = Num(KEYWORD_CONFIDENCE)

\* ------------------------------------------------------------------------
\* C28: when the model's text holds a balanced {...} object of the
\* attributes' shape, parseTasteQuery returns the object of the first
\* balanced {...}, whatever follows it (more text, braces, another object).
\* ------------------------------------------------------------------------
\* The place of the brace that closes the one opened before place i, depth
\* braces being open; 0 when there is none.
RECURSIVE ClosingPlace(_, _, _)
ClosingPlace(text, i, depth) ==
  IF i > Len(text) THEN 0
  ELSE IF text[i] = LBRACE THEN ClosingPlace(text, i + 1, depth + 1)
  ELSE IF text[i] = RBRACE
       THEN (IF depth = 1 THEN i ELSE ClosingPlace(text, i + 1, depth - 1))
  ELSE ClosingPlace(text, i + 1, depth)

\* The first balanced {...} of the text, <<>> when there is none.
FirstBalanced(text) ==
  LET opens == Positions(text, LBRACE) IN
  IF opens = {} THEN <<>>
  ELSE LET close == ClosingPlace(text, Min(opens) + 1, 1) IN
       IF close = 0 THEN <<>> ELSE SubSeq(text, Min(opens), close)

C28_FirstBalancedObject ==
  (/\ pc = "returned"
   /\ reply.kind = "text"
   /\ FirstBalanced(reply.text) = <<LBRACE, "full", RBRACE>>)
    => result = MembersObject("full")

\* ------------------------------------------------------------------------
\* Vocabulary of the search over several restaurants
\* ------------------------------------------------------------------------
Responded == spc = "responded"

\* The restaurants whose menus are read.
Processed ==
  1..(IF Len(found) < PROCESSED_RESTAURANTS THEN Len(found)
      ELSE PROCESSED_RESTAURANTS)

\* What the task of the i-th restaurant found computes from its own
\* restaurant, the attributes and the preferences alone.
OwnResult(i) == restaurantTask(found[i], result, userPreferences)

OwnResults == [i \in Processed |-> OwnResult(i)]

\* The response the results give when taken in the order of the restaurants.
ExpectedResponse ==
  IF \E i \in Processed : OwnResult(i).threw
  THEN [status |-> 500, restaurants |-> <<>>]
  ELSE [status |-> 200, restaurants |-> topRestaurants(OwnResults)]

\* ------------------------------------------------------------------------
\* C22: whatever the order in which the tasks of the restaurants end, the
\* response is the one their results give in the order of the restaurants
\* (same restaurants, order, matchScore and meals), and a ranked response is
\* made only when every task has ended.
\* ------------------------------------------------------------------------
C22_OrderIndependent ==
  Responded =>
    /\ response = ExpectedResponse
    /\ response.status = 200 => \A i \in 1..Len(slots) : slots[i].settled

\* Two tasks ended in the reverse of the order of their restaurants and
\* both restaurants are returned.
C22_Witness ==
  /\ Responded
  /\ response.status = 200
  /\ completionOrder = <<2, 1>>
  /\ found = <<MexicanGrillMenu, ThaiKitchenMenu>>
  /\ Len(response.restaurants) = 2

\* ------------------------------------------------------------------------
\* C23: when the retrieval of a restaurant's menu fails or yields no items,
\* the restaurant gets an empty meal list, the response is a success and the
\* results of the other restaurants are what they compute on their own.
\* ------------------------------------------------------------------------
MenuFailed(i) ==
  found[i].hasQuote /\ (~found[i].menu.ok \/ found[i].menu.items = <<>>)

C23_MenuFailureAbsorbed ==
  (Responded /\ \E i \in Processed : MenuFailed(i)) =>
    /\ response.status = 200
    /\ \A i \in Processed :
         /\ MenuFailed(i) => slots[i].meals = <<>>
         /\ ~MenuFailed(i) => slots[i] = OwnResult(i)

\* ------------------------------------------------------------------------
\* C29: the restaurants returned are the best-ranked: at most 10, sorted by
\* matchScore non-increasing, each with matchScore > 0 or with meals, and
\* every candidate absent from the response has matchScore 0 and no meals or
\* a matchScore no greater than every returned one.
\* ------------------------------------------------------------------------
Returned == response.restaurants

\* The entry the i-th restaurant found would have in the response.
EntryOf(i) == entryOf(OwnResult(i))

\* The i-th restaurant found, one of the candidates cs, is missing from the
\* response: fewer entries equal to its own are returned than cs has.
AbsentAmong(i, cs) ==
  Cardinality({k \in 1..Len(Returned) : Returned[k] = EntryOf(i)})
    < Cardinality({j \in cs : EntryOf(j) = EntryOf(i)})

BestRankedAmong(cs) ==
  /\ Len(Returned) <= RETURNED_RESTAURANTS
  /\ \A k \in 1..(Len(Returned) - 1) :
       Returned[k].matchScore >= Returned[k + 1].matchScore
  /\ \A k \in 1..Len(Returned) :
       Returned[k].matchScore > 0 \/ Len(Returned[k].meals) > 0
  /\ \A i \in cs :
       AbsentAmong(i, cs) =>
         \/ EntryOf(i).matchScore = 0 /\ EntryOf(i).meals = <<>>
         \/ \A k \in 1..Len(Returned) :
              EntryOf(i).matchScore <= Returned[k].matchScore

\* As stated, over all the restaurants found: fails on the eleventh.
C29_BestOfAllFound ==
  (Responded /\ response.status = 200) => BestRankedAmong(1..Len(found))

\* Over the first 10 restaurants found, the ones whose menus are read.
C29_BestOfFirstTen ==
  (Responded /\ response.status = 200) => BestRankedAmong(Processed)

\* Eleven restaurants found: the tenth is ranked before the ninth and the
\* others of the first ten are left out.
C29_Witness ==
  /\ Responded
  /\ response.status = 200
  /\ found = LongList
  /\ Len(Returned) = 2
  /\ Returned[1] = EntryOf(10)
  /\ Returned[2] = EntryOf(9)
  /\ Returned[1].matchScore > Returned[2].matchScore
  /\ \E i \in Processed : AbsentAmong(i, Processed)

\* ------------------------------------------------------------------------
\* C30: however create requests of one userId interleave, when all have
\* been answered exactly one user of that userId exists and every request
\* got a success response carrying that user.
\* ------------------------------------------------------------------------
AllAnswered == \A i \in 1..Len(creates) : creates[i].pc = "done"

C30_IdempotentCreate ==
  (creates # <<>> /\ AllAnswered) =>
    \A i \in 1..Len(creates) :
      /\ Cardinality({u \in users : u.userId = creates[i].userId}) = 1
      /\ creates[i].status = 200
      /\ creates[i].user \in users
      /\ creates[i].user.userId = creates[i].userId

=============================================================================
